---- MODULE Spec2Model ----
(***************************************************************************)
(* CAssetBrowser (AssetSystem/Browser/AssetBrowser.cpp): the navigation    *)
(* history, the recursive view / recursive search switch of the folder     *)
(* filter model, the view mode, the layout map and the row order of        *)
(* SortFilterProxyModel.  The browser runs on the UI thread: one action is *)
(* one handler, run to completion, with the signals it raises              *)
(* synchronously handled inside it.                                        *)
(***************************************************************************)
EXTENDS Integers, Sequences, FiniteSets, TLC

\* ---------------------------------------------------------------- bounds
MaxHistory == 3   \* longest navigation history explored
MaxRows == 3      \* longest row list sorted

\* ------------------------------------------------------------- constants
\* enum CAssetBrowser::ViewMode; Max counts the view-mode buttons.
Details == 0
Thumbnails == 1
HSplit == 2
VSplit == 3
Max == 4

Folders == {"a", "b"}
\* QStringList values the folders view can hold as its selection.
Selections == {<<>>, <<"a">>, <<"b">>, <<"a", "b">>}
NullFolder == "null"     \* QString(): the root folder is not assigned
Garbage == "garbage"     \* what an out-of-bounds read may yield
\* QList::first() on an empty list is undefined: any of these may be read.
FirstOfEmptyOutcomes == Folders \cup {NullFolder, Garbage}
UBChoices == [first : FirstOfEmptyOutcomes, elem : Selections]

SearchTexts == {"", "t"}
Orientations == {"Horizontal", "Vertical"}

VARIABLES
    \* navigation (CAssetBrowser members and the two tool buttons)
    m_navigationHistory, m_navigationIndex, m_dontPushNavHistory,
    backEnabled, forwardEnabled,
    \* folders view, breadcrumbs bar, root folder of the two asset views
    selectedFolders, breadcrumbsShown, breadcrumbsPath, rootFolder,
    acceptedFolders, foldersViewVisible,
    \* recursive view / search and the folder filter model
    m_recursiveView, m_recursiveSearch, searchText, hasActiveFilters,
    filteredPending, isRecursive, showFolders,
    \* view mode
    m_viewMode, thumbnailVisible, detailsVisible, splitterOrientation,
    buttonChecked,
    \* the layout map the host editor keeps between GetLayout and SetLayout
    savedLayout,
    \* rows of the proxy model in view order, and the order sort() was given
    rows, sortOrder,
    \* the asset manager, the asset selection, the name editors of the two
    \* asset views and the import tasks handed to the thread pool
    managerAssets, selectedAssets, reverseDependencies, importers, editing,
    importTasks,
    \* the calls the last handler made to its collaborators (observation only)
    calls,
    \* the model of the thumbnails view, the refresh sweeps running on it and
    \* whether the view object still exists
    hasModel, rowCount, resizes, sweeps, viewAlive,
    \* whether the asset manager is scanning, the ids connected to its
    \* signalScanningCompleted, the browsers and the scans completed so far
    isScanning, connections, browsers, scans,
    \* the attribute filters of the sort/filter proxy model, its dependency
    \* filter (an index into m_filters, 0 for nullptr), the source rows it
    \* accepts and the usage count it last displayed
    m_filters, m_pDependencyFilter, acceptedRows, usageShown,
    \* the new-asset model, the numbers of its BeginCreateAsset and
    \* EndCreateAsset calls, and the position of QueryNewAsset
    newAssetModel, creates, query,
    \* what the last handler did (observation only)
    lastOp

browserVars == <<m_navigationHistory, m_navigationIndex, m_dontPushNavHistory,
                 backEnabled, forwardEnabled, selectedFolders, breadcrumbsShown,
                 breadcrumbsPath, rootFolder, acceptedFolders, foldersViewVisible,
                 m_recursiveView, m_recursiveSearch, searchText, hasActiveFilters,
                 filteredPending, isRecursive, showFolders, m_viewMode,
                 thumbnailVisible, detailsVisible, splitterOrientation,
                 buttonChecked>>

sortVars == <<rows, sortOrder>>

assetVars == <<managerAssets, selectedAssets, reverseDependencies, importers,
               editing, importTasks, calls>>

touchVars == <<hasModel, rowCount, resizes, sweeps, viewAlive>>

scanVars == <<isScanning, connections, browsers, scans>>

filterVars == <<m_filters, m_pDependencyFilter, acceptedRows, usageShown>>

createVars == <<newAssetModel, creates, query>>

auxVars == <<assetVars, touchVars, scanVars, filterVars, createVars>>

vars == <<browserVars, savedLayout, sortVars, auxVars, lastOp>>

\* What a handler leaves behind for observation; cleared when a handler starts.
NoTrace == [emitted |-> FALSE, discarded |-> 0, outOfRange |-> FALSE,
            firstOfEmpty |-> FALSE, asserted |-> FALSE, cleared |-> FALSE,
            dropped |-> 0]

\* The browser as one value, so that a handler is a function on it.
Browser ==
    [m_navigationHistory |-> m_navigationHistory,
     m_navigationIndex |-> m_navigationIndex,
     m_dontPushNavHistory |-> m_dontPushNavHistory,
     backEnabled |-> backEnabled, forwardEnabled |-> forwardEnabled,
     selectedFolders |-> selectedFolders, breadcrumbsShown |-> breadcrumbsShown,
     breadcrumbsPath |-> breadcrumbsPath, rootFolder |-> rootFolder,
     acceptedFolders |-> acceptedFolders, foldersViewVisible |-> foldersViewVisible,
     m_recursiveView |-> m_recursiveView, m_recursiveSearch |-> m_recursiveSearch,
     searchText |-> searchText, hasActiveFilters |-> hasActiveFilters,
     filteredPending |-> filteredPending,
     isRecursive |-> isRecursive, showFolders |-> showFolders,
     m_viewMode |-> m_viewMode, thumbnailVisible |-> thumbnailVisible,
     detailsVisible |-> detailsVisible, splitterOrientation |-> splitterOrientation,
     buttonChecked |-> buttonChecked,
     trace |-> NoTrace]

\* The handler `op` has returned leaving the browser as b.
Commit(b, op, fromSaved, changed) ==
    /\ m_navigationHistory' = b.m_navigationHistory
    /\ m_navigationIndex' = b.m_navigationIndex
    /\ m_dontPushNavHistory' = b.m_dontPushNavHistory
    /\ backEnabled' = b.backEnabled
    /\ forwardEnabled' = b.forwardEnabled
    /\ selectedFolders' = b.selectedFolders
    /\ breadcrumbsShown' = b.breadcrumbsShown
    /\ breadcrumbsPath' = b.breadcrumbsPath
    /\ rootFolder' = b.rootFolder
    /\ acceptedFolders' = b.acceptedFolders
    /\ foldersViewVisible' = b.foldersViewVisible
    /\ m_recursiveView' = b.m_recursiveView
    /\ m_recursiveSearch' = b.m_recursiveSearch
    /\ searchText' = b.searchText
    /\ hasActiveFilters' = b.hasActiveFilters
    /\ filteredPending' = b.filteredPending
    /\ isRecursive' = b.isRecursive
    /\ showFolders' = b.showFolders
    /\ m_viewMode' = b.m_viewMode
    /\ thumbnailVisible' = b.thumbnailVisible
    /\ detailsVisible' = b.detailsVisible
    /\ splitterOrientation' = b.splitterOrientation
    /\ buttonChecked' = b.buttonChecked
    /\ lastOp' = [op |-> op, trace |-> b.trace, fromSaved |-> fromSaved,
                  changed |-> changed]

\* An undefined read yields any outcome; a handler that makes none does not
\* depend on the choice (d is the handler run with DefaultUB).
DefaultUB == [first |-> Garbage, elem |-> <<>>]
Needed(d) ==
    IF d.trace.firstOfEmpty \/ d.trace.outOfRange THEN UBChoices ELSE {DefaultUB}

\* ------------------------------------------------------------ navigation

UpdateNavigation_OffByOne(b, clearHistory) ==
    LET c == IF clearHistory
             THEN [b EXCEPT !.m_navigationHistory = <<>>, !.m_navigationIndex = -1,
                            !.trace.dropped = Len(b.m_navigationHistory)]
             ELSE b
        count == Len(c.m_navigationHistory)
    IN  [c EXCEPT !.backEnabled = (count > 0 /\ c.m_navigationIndex > -1),
                  !.forwardEnabled = (count # 0 /\ c.m_navigationIndex <= count - 1)]

UpdateNavigation(b, clearHistory) ==
    LET c == IF clearHistory
             THEN [b EXCEPT !.m_navigationHistory = <<>>, !.m_navigationIndex = -1,
                            !.trace.dropped = Len(b.m_navigationHistory)]
             ELSE b
        count == Len(c.m_navigationHistory)
    IN  [c EXCEPT !.backEnabled = (count > 0 /\ c.m_navigationIndex > -1),
                  !.forwardEnabled = (count # 0 /\ c.m_navigationIndex < count - 1)]

\* QStringList::first(); undefined on an empty list.
First(list, ub) == IF list = <<>> THEN ub.first ELSE Head(list)

OnFolderSelectionChanged_NoTruncate(b, folders, ub) ==
    LET numFolders == Len(folders)
        b1 == IF numFolders > 1
              THEN [b EXCEPT !.breadcrumbsShown = FALSE, !.rootFolder = NullFolder]
              ELSE [b EXCEPT !.breadcrumbsShown = TRUE,
                             !.breadcrumbsPath = First(folders, ub),
                             !.rootFolder = First(folders, ub),
                             !.trace.firstOfEmpty = @ \/ (numFolders = 0)]
        b2 == [b1 EXCEPT !.acceptedFolders = folders]
        b3 == IF ~b2.m_dontPushNavHistory
              THEN [b2 EXCEPT !.m_navigationHistory = Append(@, folders),
                              !.m_navigationIndex = @ + 1]
              ELSE b2
    IN  UpdateNavigation(b3, FALSE)

OnFolderSelectionChanged(b, folders, ub) ==
    LET numFolders == Len(folders)
        b1 == IF numFolders > 1
              THEN [b EXCEPT !.breadcrumbsShown = FALSE, !.rootFolder = NullFolder]
              ELSE [b EXCEPT !.breadcrumbsShown = TRUE,
                             !.breadcrumbsPath = First(folders, ub),
                             !.rootFolder = First(folders, ub),
                             !.trace.firstOfEmpty = @ \/ (numFolders = 0)]
        b2 == [b1 EXCEPT !.acceptedFolders = folders]
        hist == b2.m_navigationHistory
        idx == b2.m_navigationIndex
        kept == IF idx < Len(hist) - 1 THEN SubSeq(hist, 1, idx + 1) ELSE hist
        b3 == IF ~b2.m_dontPushNavHistory
              THEN [b2 EXCEPT !.m_navigationHistory = Append(kept, folders),
                              !.m_navigationIndex = idx + 1,
                              !.trace.discarded = @ + (Len(hist) - Len(kept))]
              ELSE b2
    IN  UpdateNavigation(b3, FALSE)

\* CAssetFoldersView::SelectFolders / ClearSelection / a click in the tree: the
\* view's selection becomes `folders`; signalSelectionChanged is raised, and
\* handled before the call returns, only when the selection changed.
FoldersViewSelect(b, folders, ub) ==
    IF folders = b.selectedFolders
    THEN b
    ELSE OnFolderSelectionChanged(
             [b EXCEPT !.selectedFolders = folders, !.trace.emitted = TRUE],
             folders, ub)

\* m_navigationHistory[i]; undefined when i is out of range.
HistoryAt(b, i, ub) ==
    IF i >= 0 /\ i < Len(b.m_navigationHistory)
    THEN b.m_navigationHistory[i + 1]
    ELSE ub.elem

MarkRange(b, i) ==
    [b EXCEPT !.trace.outOfRange =
                  @ \/ ~(i >= 0 /\ i < Len(b.m_navigationHistory))]

OnNavBack_Pushing(b, ub) ==
    LET b2 == IF b.m_navigationIndex >= 0
              THEN [b EXCEPT !.m_navigationIndex = @ - 1]
              ELSE b
        b3 == IF b2.m_navigationIndex = -1
              THEN FoldersViewSelect([b2 EXCEPT !.trace.cleared = TRUE], <<>>, ub)
              ELSE FoldersViewSelect(MarkRange(b2, b2.m_navigationIndex),
                                     HistoryAt(b2, b2.m_navigationIndex, ub), ub)
    IN  [b3 EXCEPT !.m_dontPushNavHistory = FALSE]

OnNavBack(b, ub) ==
    LET b1 == [b EXCEPT !.m_dontPushNavHistory = TRUE]
        b2 == IF b1.m_navigationIndex >= 0
              THEN [b1 EXCEPT !.m_navigationIndex = @ - 1]
              ELSE b1
        b3 == IF b2.m_navigationIndex = -1
              THEN FoldersViewSelect([b2 EXCEPT !.trace.cleared = TRUE], <<>>, ub)
              ELSE FoldersViewSelect(MarkRange(b2, b2.m_navigationIndex),
                                     HistoryAt(b2, b2.m_navigationIndex, ub), ub)
    IN  [b3 EXCEPT !.m_dontPushNavHistory = FALSE]

OnNavForward(b, ub) ==
    LET b1 == [b EXCEPT !.m_dontPushNavHistory = TRUE]
        b2 == [b1 EXCEPT !.m_navigationIndex = @ + 1]
        b3 == FoldersViewSelect(MarkRange(b2, b2.m_navigationIndex),
                                HistoryAt(b2, b2.m_navigationIndex, ub), ub)
    IN  [b3 EXCEPT !.m_dontPushNavHistory = FALSE]

\* ------------------------------------- recursive view / recursive search

UpdateModels_SearchOnly(b) ==
    LET searching == (b.searchText # "") \/ b.hasActiveFilters
    IN  IF searching /\ b.m_recursiveSearch /\ ~b.isRecursive
        THEN [b EXCEPT !.showFolders = FALSE, !.isRecursive = TRUE]
        ELSE b

UpdateModels_KeepsFolders(b) ==
    LET searching == (b.searchText # "") \/ b.hasActiveFilters
    IN  IF searching /\ b.m_recursiveSearch /\ ~b.isRecursive
        THEN [b EXCEPT !.isRecursive = TRUE]
        ELSE IF ~searching /\ b.m_recursiveView # b.isRecursive
        THEN [b EXCEPT !.isRecursive = b.m_recursiveView,
                       !.showFolders = ~b.m_recursiveView]
        ELSE b

UpdateModels_ShowsFolders(b) ==
    LET searching == (b.searchText # "") \/ b.hasActiveFilters
    IN  IF searching /\ b.m_recursiveSearch /\ ~b.isRecursive
        THEN [b EXCEPT !.showFolders = FALSE, !.isRecursive = TRUE]
        ELSE IF ~searching /\ b.m_recursiveView # b.isRecursive
        THEN [b EXCEPT !.isRecursive = b.m_recursiveView,
                       !.showFolders = TRUE]
        ELSE b

UpdateModels(b) ==
    LET searching == (b.searchText # "") \/ b.hasActiveFilters
    IN  IF searching /\ b.m_recursiveSearch /\ ~b.isRecursive
        THEN [b EXCEPT !.showFolders = FALSE, !.isRecursive = TRUE]
        ELSE IF ~searching /\ b.m_recursiveView # b.isRecursive
        THEN [b EXCEPT !.isRecursive = b.m_recursiveView,
                       !.showFolders = ~b.m_recursiveView]
        ELSE b

SetRecursiveView(b, recursiveView) ==
    IF b.m_recursiveView # recursiveView
    THEN UpdateModels([b EXCEPT !.m_recursiveView = recursiveView])
    ELSE b

SetRecursiveSearch(b, recursiveSearch) ==
    IF b.m_recursiveSearch # recursiveSearch
    THEN UpdateModels([b EXCEPT !.m_recursiveSearch = recursiveSearch])
    ELSE b

\* QFilteringPanel::SetState: the search text and the filters are replaced;
\* signalOnFiltered (connected to UpdateModels) follows a change.
FilterPanelSetState(b, f) ==
    IF f.searchText = b.searchText /\ f.hasActiveFilters = b.hasActiveFilters
    THEN b
    ELSE [b EXCEPT !.searchText = f.searchText,
                   !.hasActiveFilters = f.hasActiveFilters,
                   !.filteredPending = TRUE]

\* --------------------------------------------------------------- view mode

\* QAbstractButton::setChecked in the exclusive QButtonGroup m_viewModeButtons:
\* checking a button unchecks the others, and the group's checked button
\* cannot be unchecked.
SetChecked(checked, i, on) ==
    IF checked[i] = on THEN checked
    ELSE IF on THEN [j \in 0 .. Max - 1 |-> j = i]
    ELSE checked

RECURSIVE CheckButtons(_, _, _)
\* for (int i = 0; i < ViewMode::Max; i++) button(i)->setChecked(i == m_viewMode)
CheckButtons(checked, i, viewMode) ==
    IF i >= Max THEN checked
    ELSE CheckButtons(SetChecked(checked, i, i = viewMode), i + 1, viewMode)

SetViewMode_KeepsOrientation(b, viewMode) ==
    IF b.m_viewMode # viewMode
    THEN LET b1 == CASE viewMode = Details ->
                         [b EXCEPT !.thumbnailVisible = FALSE, !.detailsVisible = TRUE]
                     [] viewMode = Thumbnails ->
                         [b EXCEPT !.thumbnailVisible = TRUE, !.detailsVisible = FALSE]
                     [] viewMode \in {HSplit, VSplit} ->
                         [b EXCEPT !.thumbnailVisible = TRUE, !.detailsVisible = TRUE]
                     [] OTHER -> [b EXCEPT !.trace.asserted = TRUE]
             b2 == [b1 EXCEPT !.m_viewMode = viewMode]
         IN  [b2 EXCEPT !.buttonChecked = CheckButtons(@, 0, b2.m_viewMode)]
    ELSE b

SetViewMode(b, viewMode) ==
    IF b.m_viewMode # viewMode
    THEN LET b1 == CASE viewMode = Details ->
                         [b EXCEPT !.thumbnailVisible = FALSE, !.detailsVisible = TRUE]
                     [] viewMode = Thumbnails ->
                         [b EXCEPT !.thumbnailVisible = TRUE, !.detailsVisible = FALSE]
                     [] viewMode \in {HSplit, VSplit} ->
                         [b EXCEPT !.thumbnailVisible = TRUE, !.detailsVisible = TRUE,
                                   !.splitterOrientation =
                                       IF viewMode = VSplit THEN "Vertical" ELSE "Horizontal"]
                     [] OTHER -> [b EXCEPT !.trace.asserted = TRUE]
             b2 == [b1 EXCEPT !.m_viewMode = viewMode]
         IN  [b2 EXCEPT !.buttonChecked = CheckButtons(@, 0, b2.m_viewMode)]
    ELSE b

\* ------------------------------------------------------------------ layout
\* A QVariantMap: every key holds a set, empty when the key is absent
\* (QVariant::isValid() is false) and else holding the stored value.

StoredViewModes == 0 .. Max
FilterStates == [searchText : SearchTexts, hasActiveFilters : BOOLEAN]

NoLayout ==
    [mainViewSplitter |-> {}, viewMode |-> {}, recursiveView |-> {},
     recursiveSearch |-> {}, showFolders |-> {}, filters |-> {}, foldersView |-> {}]

GetLayout(b) ==
    [mainViewSplitter |-> {b.splitterOrientation},
     viewMode |-> {b.m_viewMode},
     recursiveView |-> {b.m_recursiveView},
     recursiveSearch |-> {b.m_recursiveSearch},
     showFolders |-> {b.foldersViewVisible},
     filters |-> {[searchText |-> b.searchText, hasActiveFilters |-> b.hasActiveFilters]},
     foldersView |-> {b.selectedFolders}]

\* The value stored under a key that is present.
Value(v) == CHOOSE x \in v : TRUE

SetLayout_CopyPaste(b, state, ub) ==
    LET b1 == IF state.mainViewSplitter # {}
              THEN [b EXCEPT !.splitterOrientation = Value(state.mainViewSplitter)]
              ELSE b
        b2 == IF state.viewMode # {} THEN SetViewMode(b1, Value(state.viewMode)) ELSE b1
        b3 == IF state.recursiveView # {}
              THEN SetRecursiveView(b2, Value(state.recursiveView)) ELSE b2
        b4 == IF state.recursiveView # {}
              THEN SetRecursiveSearch(b3, Value(state.recursiveView)) ELSE b3
        b5 == IF state.showFolders # {}
              THEN [b4 EXCEPT !.foldersViewVisible = Value(state.showFolders)] ELSE b4
        b6 == IF state.filters # {}
              THEN FilterPanelSetState(b5, Value(state.filters)) ELSE b5
        b7 == IF state.foldersView # {}
              THEN FoldersViewSelect(b6, Value(state.foldersView), ub) ELSE b6
    IN  UpdateNavigation(b7, TRUE)

SetLayout_KeepsHistory(b, state, ub) ==
    LET b1 == IF state.mainViewSplitter # {}
              THEN [b EXCEPT !.splitterOrientation = Value(state.mainViewSplitter)]
              ELSE b
        b2 == IF state.viewMode # {} THEN SetViewMode(b1, Value(state.viewMode)) ELSE b1
        b3 == IF state.recursiveView # {}
              THEN SetRecursiveView(b2, Value(state.recursiveView)) ELSE b2
        b4 == IF state.recursiveSearch # {}
              THEN SetRecursiveSearch(b3, Value(state.recursiveSearch)) ELSE b3
        b5 == IF state.showFolders # {}
              THEN [b4 EXCEPT !.foldersViewVisible = Value(state.showFolders)] ELSE b4
        b6 == IF state.filters # {}
              THEN FilterPanelSetState(b5, Value(state.filters)) ELSE b5
        b7 == IF state.foldersView # {}
              THEN FoldersViewSelect(b6, Value(state.foldersView), ub) ELSE b6
    IN  UpdateNavigation(b7, FALSE)

SetLayout(b, state, ub) ==
    LET b1 == IF state.mainViewSplitter # {}
              THEN [b EXCEPT !.splitterOrientation = Value(state.mainViewSplitter)]
              ELSE b
        b2 == IF state.viewMode # {} THEN SetViewMode(b1, Value(state.viewMode)) ELSE b1
        b3 == IF state.recursiveView # {}
              THEN SetRecursiveView(b2, Value(state.recursiveView)) ELSE b2
        b4 == IF state.recursiveSearch # {}
              THEN SetRecursiveSearch(b3, Value(state.recursiveSearch)) ELSE b3
        b5 == IF state.showFolders # {}
              THEN [b4 EXCEPT !.foldersViewVisible = Value(state.showFolders)] ELSE b4
        b6 == IF state.filters # {}
              THEN FilterPanelSetState(b5, Value(state.filters)) ELSE b5
        b7 == IF state.foldersView # {}
              THEN FoldersViewSelect(b6, Value(state.foldersView), ub) ELSE b6
    IN  UpdateNavigation(b7, TRUE)

\* ------------------------------------------------ assets: delete, rename
\* CAsset pointers, the files a user can pick, the buttons of a question box.
AssetIds == {"x", "y"}
Extensions == {"fbx", "txt"}
Buttons == {"Yes", "No"}
\* What the user answers to the one dialog a handler shows, agreeing or not:
\* the result of CAssetReverseDependenciesDialog::Execute when it is that
\* dialog, the button of SQuestion when it is the question box.
UserAnswers == {[execute |-> TRUE, button |-> "Yes"],
                [execute |-> FALSE, button |-> "No"]}

\* The asset side of the browser as one value, so that a handler is a
\* function on it; calls is cleared when a handler starts.
Manager ==
    [managerAssets |-> managerAssets, selectedAssets |-> selectedAssets,
     reverseDependencies |-> reverseDependencies, importers |-> importers,
     editing |-> editing, importTasks |-> importTasks, calls |-> <<>>]

\* The handler `op` has returned leaving the asset side as a.
CommitAssets(a, op) ==
    /\ managerAssets' = a.managerAssets
    /\ selectedAssets' = a.selectedAssets
    /\ reverseDependencies' = a.reverseDependencies
    /\ importers' = a.importers
    /\ editing' = a.editing
    /\ importTasks' = a.importTasks
    /\ calls' = a.calls
    /\ lastOp' = [op |-> op, trace |-> NoTrace, fromSaved |-> FALSE,
                  changed |-> FALSE]

\* A call to a collaborator, with what it was given and what it returned.
Call(a, fn, arg, ret) ==
    [a EXCEPT !.calls = Append(@, [fn |-> fn, arg |-> arg, ret |-> ret])]

BoolStr(v) == IF v THEN "true" ELSE "false"

\* CAssetManager::HasAnyReverseDependencies(assets)
HasAnyReverseDependencies(a, assets) == assets \cap a.reverseDependencies # {}

\* CAssetManager::DeleteAssetsWithFiles(assets): the assets leave the manager,
\* and with it the asset model and the selection.
DeleteAssetsWithFiles(a, assets) ==
    LET a1 == Call(a, "DeleteAssetsWithFiles", assets, "")
    IN  [a1 EXCEPT !.managerAssets = @ \ assets, !.selectedAssets = @ \ assets]

OnDelete_IgnoresNo(a, assets, answer) ==
    LET a0 == Call(a, "OnDelete", assets, "")
    IN  IF HasAnyReverseDependencies(a0, assets)
        THEN LET a1 == Call(a0, "CAssetReverseDependenciesDialog", assets,
                             BoolStr(answer.execute))
             IN  IF ~answer.execute THEN a1 ELSE DeleteAssetsWithFiles(a1, assets)
        ELSE LET a1 == Call(a0, "SQuestion", assets, answer.button)
             IN  DeleteAssetsWithFiles(a1, assets)

\* CAssetBrowser::OnDelete(const std::vector<CAsset*>& assets)
OnDelete(a, assets, answer) ==
    LET a0 == Call(a, "OnDelete", assets, "")
    IN  IF HasAnyReverseDependencies(a0, assets)
        THEN LET a1 == Call(a0, "CAssetReverseDependenciesDialog", assets,
                             BoolStr(answer.execute))
             IN  IF ~answer.execute THEN a1 ELSE DeleteAssetsWithFiles(a1, assets)
        ELSE LET a1 == Call(a0, "SQuestion", assets, answer.button)
             IN  IF answer.button # "Yes" THEN a1 ELSE DeleteAssetsWithFiles(a1, assets)

\* bool CAssetBrowser::OnDelete(): the selected assets, when there are any.
OnDeleteSelected(a, answer) ==
    IF a.selectedAssets # {} THEN OnDelete(a, a.selectedAssets, answer) ELSE a

\* QAbstractItemView::EditTrigger flags; a trigger is a set of flags.
EditFlags == {"CurrentChanged", "DoubleClicked", "SelectedClicked",
              "EditKeyPressed", "AnyKeyPressed"}
AllEditTriggers == EditFlags
\* The triggers Qt and the browser call edit() with: a double click, the edit
\* key, and view->edit(index).
Triggers == {{"DoubleClicked"}, {"EditKeyPressed"}, AllEditTriggers}
\* editTriggers() of a new QAbstractItemView
DefaultEditTriggers == {"DoubleClicked", "EditKeyPressed", "AnyKeyPressed"}
\* setEditTriggers(editTriggers() & ~DoubleClicked), on both views
ViewEditTriggers == DefaultEditTriggers \ {"DoubleClicked"}

Views == {"details", "thumbnails"}
NullAsset == "nullptr"
NoIndex == [kind |-> "invalid", asset |-> NullAsset]
\* The model indexes of a view: the invalid index, a folder row, the row of
\* an asset of the manager, and the row of the asset being created, whose
\* internal pointer is null.
Indexes(a) ==
    {NoIndex, [kind |-> "folder", asset |-> NullAsset],
     [kind |-> "asset", asset |-> NullAsset]}
        \cup {[kind |-> "asset", asset |-> x] : x \in a.managerAssets}

IsAsset(index) == index.kind = "asset"
ToAsset(index) == index.asset

\* UserConfirmsRenaming(asset, pParent): the asset side after the dialog, and
\* the value returned.
UserConfirmsRenaming(a, asset, answer) ==
    IF HasAnyReverseDependencies(a, {asset})
    THEN [a |-> Call(a, "CAssetReverseDependenciesDialog", {asset},
                     BoolStr(answer.execute)),
          result |-> answer.execute]
    ELSE [a |-> Call(a, "SQuestion", {asset}, answer.button),
          result |-> (answer.button = "Yes")]

\* QAbstractItemView::edit(index, trigger, event), which QAdvancedTreeView and
\* QListView inherit: the editor opens when the index is valid, no editor is
\* open and the trigger is AllEditTriggers or one of the view's triggers.
BaseEdit(a, view, index, trigger) ==
    LET opens == /\ index # NoIndex
                 /\ a.editing[view] = NoIndex
                 /\ (trigger = AllEditTriggers \/ trigger \cap ViewEditTriggers # {})
        a1 == Call(a, "BaseEdit", {index}, BoolStr(opens))
        a2 == IF opens THEN [a1 EXCEPT !.editing[view] = index] ELSE a1
    IN  Call(a2, "return", {}, BoolStr(opens))

\* What a view's edit() does when the user has declined.
Declined(a, hasEvent) ==
    LET a1 == IF hasEvent THEN Call(a, "QEvent::accept", {}, "") ELSE a
    IN  Call(a1, "return", {}, "true")

\* QAssetDetailsView::edit
DetailsViewEdit(a, index, trigger, hasEvent, answer) ==
    IF (ViewEditTriggers \cap trigger # {}) /\ index # NoIndex /\ IsAsset(index)
    THEN LET pAsset == ToAsset(index)
             c == UserConfirmsRenaming(a, pAsset, answer)
         IN  IF pAsset # NullAsset /\ ~c.result
             THEN Declined(c.a, hasEvent)
             ELSE BaseEdit(IF pAsset # NullAsset THEN c.a ELSE a, "details",
                           index, trigger)
    ELSE BaseEdit(a, "details", index, trigger)

ThumbnailsViewEdit_Inverted(a, index, trigger, hasEvent, answer) ==
    IF (ViewEditTriggers \cap trigger # {}) /\ index # NoIndex /\ IsAsset(index)
    THEN LET pAsset == ToAsset(index)
             c == UserConfirmsRenaming(a, pAsset, answer)
         IN  IF pAsset # NullAsset /\ c.result
             THEN Declined(c.a, hasEvent)
             ELSE BaseEdit(IF pAsset # NullAsset THEN c.a ELSE a, "thumbnails",
                           index, trigger)
    ELSE BaseEdit(a, "thumbnails", index, trigger)

\* CThumbnailsInternalView::edit
ThumbnailsViewEdit(a, index, trigger, hasEvent, answer) ==
    IF (ViewEditTriggers \cap trigger # {}) /\ index # NoIndex /\ IsAsset(index)
    THEN LET pAsset == ToAsset(index)
             c == UserConfirmsRenaming(a, pAsset, answer)
         IN  IF pAsset # NullAsset /\ ~c.result
             THEN Declined(c.a, hasEvent)
             ELSE BaseEdit(IF pAsset # NullAsset THEN c.a ELSE a, "thumbnails",
                           index, trigger)
    ELSE BaseEdit(a, "thumbnails", index, trigger)

\* view->edit(index, trigger, event) through the virtual call.
ViewEdit(a, req, answer) ==
    LET a0 == Call(a, "edit", {req}, "")
    IN  IF req.view = "details"
        THEN DetailsViewEdit(a0, req.index, req.trigger, req.hasEvent, answer)
        ELSE ThumbnailsViewEdit(a0, req.index, req.trigger, req.hasEvent, answer)

\* ------------------------------------------------------- assets: import
MaxImports == 2   \* most OnImport calls that start a task

\* CAssetDropHandler::CanImportAny(filePaths): a registered importer takes one
\* of the files (a file is known by its extension).
CanImportAny(a, filePaths) == filePaths \cap a.importers # {}

\* ThreadingUtils::AsyncFinalize(task, finalize): the task is handed to the
\* thread pool; the call returns at once.
AsyncFinalize(a, filePaths, outputDirectory) ==
    LET a1 == Call(a, "AsyncFinalize", filePaths, "")
    IN  [a1 EXCEPT !.importTasks =
            Append(@, [filePaths |-> filePaths, outputDirectory |-> outputDirectory,
                       state |-> "queued", returned |-> {}, merged |-> <<>>])]

\* CAssetManager::MergeAssets(assets), called by the finalizer of task i.
MergeAssets(a, i, assets) ==
    [a EXCEPT !.managerAssets = @ \cup assets,
              !.importTasks[i].merged = Append(@, assets)]

OnImport_MergesAtOnce(a, folderSelection, chosen) ==
    IF Cardinality(a.importers) = 0
    THEN Call(a, "SWarning", {}, "No importers registered")
    ELSE LET a1 == Call(a, "RunImportMultipleFiles", chosen, "")
         IN  IF chosen = {}
             THEN a1
             ELSE LET a2 == Call(a1, "SetProjectProperty", chosen, "RecentImportPath")
                  IN  IF CanImportAny(a2, chosen)
                      THEN LET a3 == AsyncFinalize(a2, chosen,
                                         IF Len(folderSelection) = 1
                                         THEN folderSelection[1] ELSE "")
                           IN  MergeAssets(a3, Len(a3.importTasks), {})
                      ELSE Call(a2, "CryWarning", chosen,
                                IF Cardinality(chosen) > 1
                                THEN "Cannot import files." ELSE "Cannot import file")

OnImport_NoCanImport(a, folderSelection, chosen) ==
    IF Cardinality(a.importers) = 0
    THEN Call(a, "SWarning", {}, "No importers registered")
    ELSE LET a1 == Call(a, "RunImportMultipleFiles", chosen, "")
         IN  IF chosen = {}
             THEN a1
             ELSE LET a2 == Call(a1, "SetProjectProperty", chosen, "RecentImportPath")
                  IN  AsyncFinalize(a2, chosen,
                                    IF Len(folderSelection) = 1
                                    THEN folderSelection[1] ELSE "")

\* CAssetBrowser::OnImport; chosen is what the file dialog returns.
OnImport(a, folderSelection, chosen) ==
    IF Cardinality(a.importers) = 0
    THEN Call(a, "SWarning", {}, "No importers registered")
    ELSE LET a1 == Call(a, "RunImportMultipleFiles", chosen, "")
         IN  IF chosen = {}
             THEN a1
             ELSE LET a2 == Call(a1, "SetProjectProperty", chosen, "RecentImportPath")
                  IN  IF CanImportAny(a2, chosen)
                      THEN AsyncFinalize(a2, chosen,
                                         IF Len(folderSelection) = 1
                                         THEN folderSelection[1] ELSE "")
                      ELSE Call(a2, "CryWarning", chosen,
                                IF Cardinality(chosen) > 1
                                THEN "Cannot import files." ELSE "Cannot import file")

\* The thread pool runs task i: CAssetDropHandler::Import returns `assets`.
ImportReturns(a, i, assets) ==
    [a EXCEPT !.importTasks[i].state = "returned",
              !.importTasks[i].returned = assets]

\* The main thread runs the finalizer of task i with what the task returned.
ImportFinalize(a, i) ==
    MergeAssets([a EXCEPT !.importTasks[i].state = "merged"], i,
                a.importTasks[i].returned)

\* ---------------------------------- thumbnails view: the refresh sweep
MaxModelRows == 19   \* most rows of the model of the thumbnails view
MaxSweeps == 2       \* most refresh sweeps started
MaxResizes == 1      \* most changes of the row count

batchSize == 8       \* const int batchSize = 1 << 3

\* The row counts a model is handed over with: empty, one row, the last row
\* count of one batch and the first of two, the last of two, and the most.
ModelSizes == {0, 1, batchSize + 1, batchSize + 2, 2 * batchSize + 2, MaxModelRows}

\* The thumbnails view as one value.  A sweep is what one TouchVisibleAssets
\* call started: the first row of its pending continuation (-1: none is
\* scheduled), the rows examined so far in order, the number of rows each
\* batch examined, the row count when it started and whether it has run
\* undisturbed since (the row count has stayed the same and the view exists).
TouchView ==
    [hasModel |-> hasModel, rowCount |-> rowCount, resizes |-> resizes,
     sweeps |-> sweeps, viewAlive |-> viewAlive]

CommitTouch(t, op) ==
    /\ hasModel' = t.hasModel
    /\ rowCount' = t.rowCount
    /\ resizes' = t.resizes
    /\ sweeps' = t.sweeps
    /\ viewAlive' = t.viewAlive
    /\ lastOp' = [op |-> op, trace |-> NoTrace, fromSaved |-> FALSE,
                  changed |-> FALSE]

Min(x, y) == IF x < y THEN x ELSE y

\* for (int i = lastBatchRow; i >= firstBatchRow; --i): the rows visited.
RowsDownFrom(lastBatchRow, firstBatchRow) ==
    IF lastBatchRow < firstBatchRow THEN <<>>
    ELSE [k \in 1 .. lastBatchRow - firstBatchRow + 1 |-> lastBatchRow - k + 1]

TouchVisibleAssetsBatched_Overlap(t, s, firstBatchRow) ==
    IF ~t.hasModel \/ t.rowCount = 0
    THEN [t EXCEPT !.sweeps[s].pending = -1]
    ELSE LET lastRow == t.rowCount - 1
             lastBatchRow == Min(lastRow, firstBatchRow + batchSize)
             examined == RowsDownFrom(lastBatchRow, firstBatchRow)
         IN  [t EXCEPT !.sweeps[s].seen = @ \o examined,
                       !.sweeps[s].batches = Append(@, Len(examined)),
                       !.sweeps[s].pending =
                           IF lastBatchRow < lastRow THEN lastBatchRow ELSE -1]

\* CThumbnailsInternalView::TouchVisibleAssetsBatched(firstBatchRow), run for
\* sweep s; the continuation it schedules replaces the one that called it.
TouchVisibleAssetsBatched(t, s, firstBatchRow) ==
    IF ~t.hasModel \/ t.rowCount = 0
    THEN [t EXCEPT !.sweeps[s].pending = -1]
    ELSE LET lastRow == t.rowCount - 1
             lastBatchRow == Min(lastRow, firstBatchRow + batchSize)
             examined == RowsDownFrom(lastBatchRow, firstBatchRow)
         IN  [t EXCEPT !.sweeps[s].seen = @ \o examined,
                       !.sweeps[s].batches = Append(@, Len(examined)),
                       !.sweeps[s].pending =
                           IF lastBatchRow < lastRow THEN lastBatchRow + 1 ELSE -1]

\* CThumbnailsInternalView::TouchVisibleAssets
TouchVisibleAssets(t) ==
    LET t1 == [t EXCEPT !.sweeps =
                   Append(@, [pending |-> -1, seen |-> <<>>, batches |-> <<>>,
                              rowsAtStart |-> IF t.hasModel THEN t.rowCount ELSE 0,
                              steady |-> TRUE])]
    IN  TouchVisibleAssetsBatched(t1, Len(t1.sweeps), 0)

\* The lambda of QTimer::singleShot(0, ...) of sweep s without its guard.
BatchContinuation_NoGuard(t, s) ==
    TouchVisibleAssetsBatched(t, s, t.sweeps[s].pending)

\* The lambda of QTimer::singleShot(0, ...) of sweep s: the QPointer it
\* captured is null once the view has been destroyed.
BatchContinuation(t, s) ==
    IF ~t.viewAlive
    THEN [t EXCEPT !.sweeps[s].pending = -1]
    ELSE TouchVisibleAssetsBatched(t, s, t.sweeps[s].pending)

\* The sweeps that still have a continuation pending are disturbed.
Disturbed(sw) ==
    [s \in DOMAIN sw |->
        IF sw[s].pending >= 0 THEN [sw[s] EXCEPT !.steady = FALSE] ELSE sw[s]]

\* ~CThumbnailsInternalView: the timers already started stay in the event
\* loop.
DestroyView(t) ==
    [t EXCEPT !.viewAlive = FALSE, !.sweeps = Disturbed(@)]

\* The row count of the model becomes n: no running sweep is steady any more.
SetRowCount(t, n) ==
    [t EXCEPT !.rowCount = n, !.sweeps = Disturbed(@)]

\* ------------------------------------------------- the loading layout

BrowserIds == {"b1", "b2"}
MaxScans == 2   \* most scans of the asset manager

\* The asset manager's scan and the browsers as one value.  A browser is not
\* constructed yet ("none"), alive or destroyed; it shows the normal or the
\* loading layout; runs counts the runs of its completion handler.
Scan ==
    [isScanning |-> isScanning, connections |-> connections,
     browsers |-> browsers, scans |-> scans]

CommitScan(s, op) ==
    /\ isScanning' = s.isScanning
    /\ connections' = s.connections
    /\ browsers' = s.browsers
    /\ scans' = s.scans
    /\ lastOp' = [op |-> op, trace |-> NoTrace, fromSaved |-> FALSE,
                  changed |-> FALSE]

NoBrowser ==
    [life |-> "none", layout |-> "none", runs |-> 0,
     scanningAtConstruction |-> FALSE]

\* CAssetBrowser::CAssetBrowser, the "Loading" feature: the loading layout
\* is swapped in and the handler connected only while the manager scans.
ConstructBrowser(s, b) ==
    IF s.isScanning
    THEN [s EXCEPT !.browsers[b] = [life |-> "alive", layout |-> "loading",
                                    runs |-> 0, scanningAtConstruction |-> TRUE],
                   !.connections = @ \cup {b}]
    ELSE [s EXCEPT !.browsers[b] = [life |-> "alive", layout |-> "normal",
                                    runs |-> 0, scanningAtConstruction |-> FALSE]]

\* The lambda connected to signalScanningCompleted under the id of browser b.
OnScanningCompleted(s, b) ==
    [s EXCEPT !.browsers[b].layout = "normal",
              !.browsers[b].runs = @ + 1,
              !.connections = @ \ {b}]

\* CCrySignal::operator(): every handler connected when the signal is raised
\* runs once.
RECURSIVE Emit(_, _)
Emit(s, ids) ==
    IF ids = {} THEN s
    ELSE LET b == CHOOSE x \in ids : TRUE
         IN  Emit(OnScanningCompleted(s, b), ids \ {b})

\* The asset manager ends a scan and raises signalScanningCompleted.
ScanningCompleted(s) ==
    Emit([s EXCEPT !.isScanning = FALSE, !.scans = @ + 1], s.connections)

Destructor_StaysConnected(s, b) ==
    [s EXCEPT !.browsers[b].life = "destroyed"]

\* CAssetBrowser::~CAssetBrowser
Destructor(s, b) ==
    [s EXCEPT !.browsers[b].life = "destroyed",
              !.connections = @ \ {b}]

\* ------------------------------------------- the sort/filter proxy model

MaxFilters == 3   \* most attribute filters of the proxy model
eAssetModelRow_Asset == "Asset"
eAssetModelRow_Folder == "Folder"

s_nameAttribute == "name"
s_dependenciesAttribute == "dependencies"

\* An attribute filter: its attribute, whether it is enabled, the value it
\* filters for and whether it has an operator (the filters of the filter
\* panel have one).
Filters ==
    {f \in [attribute : {s_nameAttribute, s_dependenciesAttribute},
            enabled : BOOLEAN, value : {"a", "b"}, hasOperator : {TRUE}] :
        f.attribute # s_nameAttribute => f.value = "a"}

\* A row of the source model: whether its name index is valid, its type, its
\* display name, whether it uses the path "a" and whether the text filter of
\* the deep filter proxy accepts it.
SourceRows ==
    [valid : BOOLEAN, type : {eAssetModelRow_Asset, eAssetModelRow_Folder},
     name : {"a", "b"}, uses : BOOLEAN, deep : BOOLEAN]

\* What DoesAssetUse returns for an asset: whether it uses the path, and how
\* often.
UsageInfos == [first : BOOLEAN, second : {0, 2}]

NotAvailable == [kind |-> "string", text |-> "n/a", number |-> 0]

IntVariant(n) == [kind |-> "int", text |-> "", number |-> n]

\* The value of a row that a filter on an attribute is matched against.
RowValue(row, attribute) ==
    IF attribute = s_nameAttribute THEN row.name
    ELSE IF row.uses THEN "a" ELSE "none"

\* CAttributeFilter::Match
Match(filter, val) == val = filter.value

\* QDeepFilterProxyModel::rowMatchesFilter
DeepRowMatchesFilter(row) == row.deep

\* QAttributeFilterProxyModel::rowMatchesFilter
AttributeRowMatchesFilter(filters, row) ==
    /\ DeepRowMatchesFilter(row)
    /\ \A i \in DOMAIN filters :
           filters[i].enabled =>
               Match(filters[i], RowValue(row, filters[i].attribute))

\* for (auto filter : m_filters) of rowMatchesFilter, from filter i on.
RECURSIVE NameFiltersMatch(_, _, _)
NameFiltersMatch(filters, i, row) ==
    IF i > Len(filters) THEN TRUE
    ELSE IF /\ filters[i].enabled
            /\ filters[i].attribute = s_nameAttribute
            /\ ~Match(filters[i], row.name)
         THEN FALSE
         ELSE NameFiltersMatch(filters, i + 1, row)

rowMatchesFilter_LikeAssets(filters, row) ==
    IF ~row.valid THEN FALSE
    ELSE AttributeRowMatchesFilter(filters, row)

\* SortFilterProxyModel::rowMatchesFilter
rowMatchesFilter(filters, row) ==
    IF ~row.valid THEN FALSE
    ELSE IF row.type = eAssetModelRow_Folder
         THEN IF DeepRowMatchesFilter(row)
              THEN NameFiltersMatch(filters, 1, row)
              ELSE FALSE
         ELSE AttributeRowMatchesFilter(filters, row)

\* for (const auto filter : m_filters) of InvalidateFilter, from filter i on,
\* with usageCountFiltersCount and m_pDependencyFilter as they are so far.
RECURSIVE DependencyFilterFrom(_, _, _, _)
DependencyFilterFrom(filters, i, usageCountFiltersCount, pDependencyFilter) ==
    IF i > Len(filters) THEN pDependencyFilter
    ELSE IF ~filters[i].enabled
         THEN DependencyFilterFrom(filters, i + 1, usageCountFiltersCount,
                                   pDependencyFilter)
         ELSE IF filters[i].attribute = s_dependenciesAttribute
              THEN DependencyFilterFrom(filters, i + 1, usageCountFiltersCount + 1,
                       IF usageCountFiltersCount + 1 = 1 THEN i ELSE 0)
              ELSE DependencyFilterFrom(filters, i + 1, usageCountFiltersCount,
                                        pDependencyFilter)

\* The proxy model as one value.
Proxy ==
    [m_filters |-> m_filters, m_pDependencyFilter |-> m_pDependencyFilter,
     acceptedRows |-> acceptedRows, usageShown |-> usageShown]

InvalidateFilter_LastWins(p) ==
    LET deps == {i \in DOMAIN p.m_filters :
                    /\ p.m_filters[i].enabled
                    /\ p.m_filters[i].attribute = s_dependenciesAttribute}
    IN  [p EXCEPT !.m_pDependencyFilter =
                      IF deps = {} THEN 0
                      ELSE CHOOSE i \in deps : \A j \in deps : j <= i,
                  !.acceptedRows = {row \in SourceRows :
                                       rowMatchesFilter(p.m_filters, row)}]

\* SortFilterProxyModel::InvalidateFilter; the base invalidateFilter filters
\* the source rows again.
InvalidateFilter(p) ==
    [p EXCEPT !.m_pDependencyFilter = DependencyFilterFrom(p.m_filters, 1, 0, 0),
              !.acceptedRows = {row \in SourceRows :
                                   rowMatchesFilter(p.m_filters, row)}]

\* CUsageCountAttribute::GetValue with m_pFilter = pFilter, for an asset of
\* the given usage.
GetValue(filters, pFilter, usageInfo) ==
    IF pFilter # 0 /\ filters[pFilter].hasOperator
    THEN IF usageInfo.first /\ usageInfo.second # 0
         THEN IntVariant(usageInfo.second)
         ELSE NotAvailable
    ELSE NotAvailable

\* SortFilterProxyModel::data for the usage count column of an asset row.
data(p, usageInfo) ==
    [p EXCEPT !.usageShown =
        [usageInfo |-> usageInfo,
         value |-> GetValue(p.m_filters, p.m_pDependencyFilter, usageInfo)]]

\* ------------------------------------------------- context menu of assets

MaxSelected == 2   \* most assets a context menu is built for

\* An asset as the context menu sees it: IsReadOnly(), whether its first file
\* exists on disk, whether it is imported and has a source file, and
\* IsModified().
MenuAssets ==
    [readOnly : BOOLEAN, onDisk : BOOLEAN, hasSource : BOOLEAN, modified : BOOLEAN]

AssetLists ==
    UNION {[1 .. n -> MenuAssets] : n \in 0 .. MaxSelected}

NoFlags == [canReimport |-> FALSE, isReadOnly |-> FALSE, isModified |-> FALSE]

\* for (CAsset* asset : assets) of BuildContextMenuForAssets, from asset i on:
\* the file looked up on disk is that of assets.front().
RECURSIVE MenuFlags(_, _, _)
MenuFlags(assets, i, flags) ==
    IF i > Len(assets) THEN flags
    ELSE MenuFlags(assets, i + 1,
             [canReimport |-> flags.canReimport
                                 \/ (assets[i].hasSource /\ ~assets[i].readOnly),
              isReadOnly |-> flags.isReadOnly
                                 \/ assets[i].readOnly \/ ~assets[1].onDisk,
              isModified |-> flags.isModified \/ assets[i].modified])

\* abstractMenu.CreateAction(name), and whether the action is enabled.
CreateAction(a, offered, name, enabled) ==
    IF offered THEN Call(a, "CreateAction", {name}, BoolStr(enabled)) ELSE a

\* CAssetBrowser::BuildContextMenuForAssets: the actions of the browser
\* itself, in the order they are created.
BuildContextMenuForAssets(a, assets) ==
    LET flags == MenuFlags(assets, 1, NoFlags)
        a0 == Call(a, "BuildContextMenuForAssets", assets, "")
        a1 == CreateAction(a0, flags.canReimport, "Reimport", TRUE)
        a2 == CreateAction(a1, ~flags.isReadOnly, "Delete", TRUE)
        a3 == CreateAction(a2, flags.isModified, "Save", TRUE)
        a4 == CreateAction(a3, flags.isModified, "Discard Changes", TRUE)
        one == Len(assets) = 1
        a5 == CreateAction(a4, one, "Rename",
                           one /\ assets[1].onDisk /\ ~assets[1].readOnly)
    IN  CreateAction(a5, one, "Show in File Explorer", one /\ assets[1].onDisk)

\* ------------------------------------------------------ creating an asset

MaxCreates == 2   \* most CNewAssetModel::BeginCreateAsset calls

NewAsset == "new"
\* The row of CNewAssetModel: the asset being created has no CAsset yet.
NewAssetRow == [kind |-> "asset", asset |-> NullAsset]
Focus == Views \cup {"none"}

\* The browser, the asset side and the new-asset model as one value.
Creation ==
    [b |-> Browser, a |-> Manager, n |-> newAssetModel, creates |-> creates,
     query |-> query]

\* CNewAssetModel::BeginCreateAsset
NewAssetModelBegin(n, folder, name) ==
    [isEditing |-> TRUE, folder |-> folder, name |-> name, asset |-> NullAsset]

\* CNewAssetModel::EndCreateAsset: the asset is created, or it is not (the
\* name was rejected, the edit was aborted, the asset type failed).
NewAssetModelEnd(n, succeeds) ==
    [n EXCEPT !.isEditing = FALSE,
              !.asset = IF succeeds THEN NewAsset ELSE NullAsset]

\* CAssetBrowser::SelectAsset(const CAsset&) for the asset just created
SelectNewAsset(c) ==
    [c EXCEPT !.b = FoldersViewSelect(c.b, <<c.n.folder>>, DefaultUB),
              !.a.selectedAssets = {c.n.asset}]

\* CAssetBrowser::EndCreateAsset
EndCreateAsset(c, succeeds) ==
    LET c1 == [c EXCEPT !.n = NewAssetModelEnd(c.n, succeeds),
                        !.creates.ended = @ + 1]
    IN  IF c1.n.asset # NullAsset THEN SelectNewAsset(c1) ELSE c1

\* QtUtil::MapFromSourceIndirect for the row of the new asset: the row is a
\* row of a source model of the proxy, so the mapping succeeds; the mapped
\* index is invalid when the proxy filters the row out.
MapFromSourceIndirect(filteredOut) ==
    [ok |-> TRUE, index |-> IF filteredOut THEN NoIndex ELSE NewAssetRow]

EditNewAsset_NoEnd(c, focus, filteredOut, succeeds) ==
    LET pView == IF focus # "none" THEN focus
                 ELSE IF c.b.m_viewMode = Thumbnails THEN "thumbnails"
                      ELSE "details"
        mapped == MapFromSourceIndirect(filteredOut)
    IN  IF ~mapped.ok THEN c
        ELSE IF mapped.index # NoIndex
             THEN [c EXCEPT !.a = [ViewEdit(c.a,
                                       [view |-> pView, index |-> mapped.index,
                                        trigger |-> AllEditTriggers,
                                        hasEvent |-> FALSE],
                                       CHOOSE answer \in UserAnswers : TRUE)
                                   EXCEPT !.selectedAssets = {}]]
             ELSE [c EXCEPT !.n.name = "Untitled"]

\* CAssetBrowser::EditNewAsset, with the view that has the focus and whether
\* the proxy filters the new row out.
EditNewAsset(c, focus, filteredOut, succeeds) ==
    LET pView == IF focus # "none" THEN focus
                 ELSE IF c.b.m_viewMode = Thumbnails THEN "thumbnails"
                      ELSE "details"
        mapped == MapFromSourceIndirect(filteredOut)
    IN  IF ~mapped.ok THEN c
        ELSE IF mapped.index # NoIndex
             THEN [c EXCEPT !.a = [ViewEdit(c.a,
                                       [view |-> pView, index |-> mapped.index,
                                        trigger |-> AllEditTriggers,
                                        hasEvent |-> FALSE],
                                       CHOOSE answer \in UserAnswers : TRUE)
                                   EXCEPT !.selectedAssets = {}]]
             ELSE EndCreateAsset([c EXCEPT !.n.name = "Untitled"], succeeds)

\* CAssetBrowser::BeginCreateAsset: front() is read before the size of the
\* selection is looked at.
BeginCreateAsset(c, focus, filteredOut, succeeds) ==
    LET folderSelection == c.b.selectedFolders
        c1 == [c EXCEPT !.b.trace.firstOfEmpty = (folderSelection = <<>>)]
    IN  IF Len(folderSelection) # 1 THEN c1
        ELSE EditNewAsset(
                 [c1 EXCEPT !.n = NewAssetModelBegin(c.n, Head(folderSelection),
                                                     "Untitled"),
                            !.creates.begun = @ + 1],
                 focus, filteredOut, succeeds)

\* CAssetBrowser::QueryNewAsset up to its wait loop; the loop is left at
\* once when the model is not editing.
QueryNewAsset(c, focus, filteredOut, succeeds) ==
    LET c1 == BeginCreateAsset(c, focus, filteredOut, succeeds)
    IN  [c1 EXCEPT !.query = IF c1.n.isEditing
                             THEN [state |-> "waiting", result |-> NullAsset]
                             ELSE [state |-> "returned", result |-> c1.n.asset]]

\* ------------------------------------------------------------ construction

\* CNewAssetModel is not editing, and QueryNewAsset has not been called.
InitCreate ==
    /\ newAssetModel = [isEditing |-> FALSE, folder |-> NullFolder, name |-> "",
                        asset |-> NullAsset]
    /\ creates = [begun |-> 0, ended |-> 0]
    /\ query = [state |-> "idle", result |-> NullAsset]

\* The proxy model has no filters and has filtered its source rows once;
\* no usage count has been displayed.
InitFilters ==
    /\ m_filters = <<>>
    /\ m_pDependencyFilter = 0
    /\ acceptedRows = {row \in SourceRows : rowMatchesFilter(<<>>, row)}
    /\ usageShown = [usageInfo |-> [first |-> FALSE, second |-> 0],
                     value |-> NotAvailable]

\* The manager is idle and nothing is connected to its signal.
InitScan ==
    /\ isScanning = FALSE
    /\ connections = {}
    /\ browsers = [b \in BrowserIds |-> NoBrowser]
    /\ scans = 0

\* The members as the constructor's initialiser list and InitViews leave them
\* before SetViewMode(Thumbnails) and the first OnFolderSelectionChanged.
Constructed ==
    [m_navigationHistory |-> <<>>, m_navigationIndex |-> -1,
     m_dontPushNavHistory |-> FALSE,
     backEnabled |-> FALSE, forwardEnabled |-> FALSE,
     selectedFolders |-> <<>>, breadcrumbsShown |-> TRUE,
     breadcrumbsPath |-> "assets", rootFolder |-> NullFolder,
     acceptedFolders |-> <<>>, foldersViewVisible |-> TRUE,
     m_recursiveView |-> FALSE, m_recursiveSearch |-> TRUE,
     searchText |-> "", hasActiveFilters |-> FALSE, filteredPending |-> FALSE,
     isRecursive |-> FALSE, showFolders |-> TRUE,
     m_viewMode |-> Max, thumbnailVisible |-> TRUE, detailsVisible |-> TRUE,
     splitterOrientation |-> "Horizontal",
     buttonChecked |-> [j \in 0 .. Max - 1 |-> FALSE],
     trace |-> NoTrace]

InitViews(ub) ==
    LET b1 == UpdateNavigation(Constructed, FALSE)
        b2 == SetViewMode(b1, Thumbnails)
    IN  OnFolderSelectionChanged(b2, b2.selectedFolders, ub)

InitBrowser ==
    \E ub \in UBChoices :
        LET b == InitViews(ub)
        IN  /\ m_navigationHistory = b.m_navigationHistory
            /\ m_navigationIndex = b.m_navigationIndex
            /\ m_dontPushNavHistory = b.m_dontPushNavHistory
            /\ backEnabled = b.backEnabled
            /\ forwardEnabled = b.forwardEnabled
            /\ selectedFolders = b.selectedFolders
            /\ breadcrumbsShown = b.breadcrumbsShown
            /\ breadcrumbsPath = b.breadcrumbsPath
            /\ rootFolder = b.rootFolder
            /\ acceptedFolders = b.acceptedFolders
            /\ foldersViewVisible = b.foldersViewVisible
            /\ m_recursiveView = b.m_recursiveView
            /\ m_recursiveSearch = b.m_recursiveSearch
            /\ searchText = b.searchText
            /\ hasActiveFilters = b.hasActiveFilters
            /\ filteredPending = b.filteredPending
            /\ isRecursive = b.isRecursive
            /\ showFolders = b.showFolders
            /\ m_viewMode = b.m_viewMode
            /\ thumbnailVisible = b.thumbnailVisible
            /\ detailsVisible = b.detailsVisible
            /\ splitterOrientation = b.splitterOrientation
            /\ buttonChecked = b.buttonChecked
            /\ lastOp = [op |-> "Construct", trace |-> b.trace, fromSaved |-> FALSE,
                         changed |-> FALSE]
            /\ savedLayout = NoLayout

\* The asset side and the thumbnails view once the browser is constructed.
InitAssetsWith(dependedOn, registered) ==
    /\ managerAssets = AssetIds
    /\ selectedAssets = {}
    /\ reverseDependencies = dependedOn
    /\ importers = registered
    /\ editing = [v \in Views |-> NoIndex]
    /\ importTasks = <<>>
    /\ calls = <<>>

InitAssets == InitAssetsWith({}, {"fbx"})

InitTouch ==
    /\ hasModel = TRUE
    /\ rowCount = 0
    /\ resizes = 0
    /\ sweeps = <<>>
    /\ viewAlive = TRUE

Init ==
    /\ InitBrowser
    /\ rows = <<>>
    /\ sortOrder = "Ascending"
    /\ InitAssets
    /\ InitTouch
    /\ InitScan
    /\ InitFilters
    /\ InitCreate

\* ------------------------------------------------------------------ actions

\* The user changes the selection of the folders tree (a click, a breadcrumb,
\* a double-clicked folder): signalSelectionChanged -> OnFolderSelectionChanged.
FolderSelectionChanged ==
    \E folders \in Selections :
      \E ub \in Needed(FoldersViewSelect(Browser, folders, DefaultUB)) :
        /\ folders # selectedFolders
        /\ m_navigationIndex + 2 <= MaxHistory
        /\ Commit(FoldersViewSelect(Browser, folders, ub), "FolderSelection",
                  FALSE, FALSE)
        /\ UNCHANGED <<savedLayout, sortVars, auxVars>>

\* Back button clicked, or the mouse's back button released (mouseReleaseEvent).
NavBack ==
    \E ub \in Needed(OnNavBack(Browser, DefaultUB)) :
        /\ backEnabled
        /\ Commit(OnNavBack(Browser, ub), "NavBack", FALSE, FALSE)
        /\ UNCHANGED <<savedLayout, sortVars, auxVars>>

NavForward ==
    \E ub \in Needed(OnNavForward(Browser, DefaultUB)) :
        /\ forwardEnabled
        /\ Commit(OnNavForward(Browser, ub), "NavForward", FALSE, FALSE)
        /\ UNCHANGED <<savedLayout, sortVars, auxVars>>

\* View menu: Details / Thumbnails / Split Horizontally / Split Vertically.
ViewMenuMode ==
    \E viewMode \in 0 .. Max - 1 :
        /\ Commit(SetViewMode(Browser, viewMode), "SetViewMode", FALSE, FALSE)
        /\ UNCHANGED <<savedLayout, sortVars, auxVars>>

\* A view-mode button clicked: the button group checks it, then SetViewMode.
ViewModeButtonClicked ==
    \E viewMode \in 0 .. Max - 1 :
        /\ Commit(SetViewMode([Browser EXCEPT !.buttonChecked = SetChecked(@, viewMode, TRUE)],
                              viewMode),
                  "SetViewMode", FALSE, FALSE)
        /\ UNCHANGED <<savedLayout, sortVars, auxVars>>

\* View menu: Show Folder Tree.
ToggleFoldersView ==
    /\ Commit([Browser EXCEPT !.foldersViewVisible = ~@], "ShowFolderTree", FALSE,
              FALSE)
    /\ UNCHANGED <<savedLayout, sortVars, auxVars>>

\* View menu: Recursive View.
ToggleRecursiveView ==
    /\ Commit(SetRecursiveView(Browser, ~m_recursiveView), "SetRecursiveView", FALSE,
              FALSE)
    /\ UNCHANGED <<savedLayout, sortVars, auxVars>>

\* View menu: Recursive Search (the action is disabled in recursive view).
ToggleRecursiveSearch ==
    /\ ~m_recursiveView
    /\ Commit(SetRecursiveSearch(Browser, ~m_recursiveSearch), "SetRecursiveSearch",
              FALSE, FALSE)
    /\ UNCHANGED <<savedLayout, sortVars, auxVars>>

\* Context menu "Show Assets ...": a dependency filter is added to the panel of
\* the browser, then SetRecursiveView(true).
ShowAssetsUsing ==
    /\ Commit(SetRecursiveView(
                  FilterPanelSetState(Browser, [searchText |-> searchText,
                                                hasActiveFilters |-> TRUE]),
                  TRUE),
              "ShowAssets", FALSE, FALSE)
    /\ UNCHANGED <<savedLayout, sortVars, auxVars>>

\* The user edits the search box or the filters; signalOnFiltered follows
\* (the search box raises it after a delay, EnableDelayedSearch).
FilterPanelEdited ==
    \E f \in FilterStates :
        /\ f # [searchText |-> searchText, hasActiveFilters |-> hasActiveFilters]
        /\ Commit(FilterPanelSetState(Browser, f), "FilterEdited", FALSE, FALSE)
        /\ UNCHANGED <<savedLayout, sortVars, auxVars>>

\* signalOnFiltered delivered: UpdateModels.
OnFiltered ==
    /\ filteredPending
    /\ Commit(UpdateModels([Browser EXCEPT !.filteredPending = FALSE]), "OnFiltered",
              FALSE, FALSE)
    /\ UNCHANGED <<savedLayout, sortVars, auxVars>>

\* The host editor saves the panel.
SaveLayout ==
    /\ savedLayout' = GetLayout(Browser)
    /\ lastOp' = [op |-> "GetLayout", trace |-> NoTrace, fromSaved |-> FALSE,
                  changed |-> FALSE]
    /\ UNCHANGED <<browserVars, sortVars, auxVars>>

\* The host editor restores the panel from the map GetLayout returned.
RestoreLayout ==
    \E ub \in Needed(SetLayout(Browser, savedLayout, DefaultUB)) :
        /\ savedLayout # NoLayout
        /\ Commit(SetLayout(Browser, savedLayout, ub), "SetLayout", TRUE,
                  /\ savedLayout.viewMode # {m_viewMode}
                  /\ savedLayout.recursiveView # {m_recursiveView}
                  /\ savedLayout.recursiveSearch # {m_recursiveSearch})
        /\ UNCHANGED <<savedLayout, sortVars, auxVars>>

\* SetLayout with a map from a file.
LoadLayout(layouts) ==
    \E state \in layouts :
      \E ub \in Needed(SetLayout(Browser, state, DefaultUB)) :
        /\ Commit(SetLayout(Browser, state, ub), "SetLayout", FALSE, FALSE)
        /\ UNCHANGED <<savedLayout, sortVars, auxVars>>

Absent(S) == {{}} \cup {{x} : x \in S}

NavLayouts == {[NoLayout EXCEPT !.foldersView = v] : v \in Absent(Selections)}

ModelLayouts ==
    {[NoLayout EXCEPT !.recursiveView = rv, !.recursiveSearch = rs, !.filters = f] :
        rv \in Absent(BOOLEAN), rs \in Absent(BOOLEAN), f \in Absent(FilterStates)}

ViewLayouts == {[NoLayout EXCEPT !.viewMode = m] : m \in Absent(StoredViewModes)}

LoadNavLayout == LoadLayout(NavLayouts)
LoadModelLayout == LoadLayout(ModelLayouts)
LoadViewLayout == LoadLayout(ViewLayouts)

NextNav == FolderSelectionChanged \/ NavBack \/ NavForward \/ LoadNavLayout

NextModels ==
    \/ ToggleRecursiveView
    \/ ToggleRecursiveSearch
    \/ ShowAssetsUsing
    \/ FilterPanelEdited
    \/ OnFiltered
    \/ LoadModelLayout

NextLayout ==
    \/ ViewMenuMode
    \/ ViewModeButtonClicked
    \/ ToggleRecursiveView
    \/ ToggleRecursiveSearch
    \/ SaveLayout
    \/ RestoreLayout
    \/ LoadViewLayout

SpecNav == Init /\ [][NextNav]_vars
SpecModels == Init /\ [][NextModels]_vars
SpecLayout == Init /\ [][NextLayout]_vars

\* ------------------------------------------------- SortFilterProxyModel

\* EAssetModelRowType, read through CAssetModel::Roles::TypeCheckRole.

\* A row: its type, its value in the sort role, its internal pointer.
Rows == [type : {eAssetModelRow_Asset, eAssetModelRow_Folder},
         value : {0, 1}, ptr : 1 .. MaxRows]

\* Row lists of the model: every row has its own internal pointer.
RowLists ==
    UNION {{r \in [1 .. n -> Rows] :
               \A i, j \in 1 .. n : i # j => r[i].ptr # r[j].ptr} : n \in 0 .. MaxRows}

\* QAttributeFilterProxyModel::lessThan: the values of the sort role compared.
BaseLessThan(left, right) == left.value < right.value

lessThan_ValueFirst(left, right) ==
    IF left.value = right.value
    THEN IF left.type = right.type
         THEN left.ptr < right.ptr
         ELSE left.type = eAssetModelRow_Folder
    ELSE BaseLessThan(left, right)

lessThan_PointerLessEqual(left, right) ==
    IF left.type = right.type
    THEN IF left.value = right.value
         THEN left.ptr <= right.ptr
         ELSE BaseLessThan(left, right)
    ELSE left.type = eAssetModelRow_Folder

lessThan(left, right) ==
    IF left.type = right.type
    THEN IF left.value = right.value
         THEN left.ptr < right.ptr
         ELSE BaseLessThan(left, right)
    ELSE left.type = eAssetModelRow_Folder

\* Whether sort(column, order) must put the row at i + 1 before the row at i.
OutOfOrder(i) ==
    IF sortOrder = "Ascending"
    THEN lessThan(rows[i + 1], rows[i])
    ELSE lessThan(rows[i], rows[i + 1])

\* sort(): one exchange of two neighbouring rows that are out of order; the
\* sort is over when no two neighbours are.
SortStep ==
    \E i \in 1 .. Len(rows) - 1 :
        /\ OutOfOrder(i)
        /\ rows' = [rows EXCEPT ![i] = rows[i + 1], ![i + 1] = rows[i]]
        /\ lastOp' = [op |-> "sort", trace |-> NoTrace, fromSaved |-> FALSE,
                      changed |-> FALSE]
        /\ UNCHANGED <<browserVars, savedLayout, sortOrder, auxVars>>

Sorted == \A i \in 1 .. Len(rows) - 1 : ~OutOfOrder(i)

InitSort ==
    /\ InitBrowser
    /\ rows \in RowLists
    /\ sortOrder \in {"Ascending", "Descending"}
    /\ InitAssets
    /\ InitTouch
    /\ InitScan
    /\ InitFilters
    /\ InitCreate

NextSort == SortStep

SpecSort == InitSort /\ [][NextSort]_vars

\* ----------------------------------------------------- actions on assets

\* The user changes the asset selection of the views.
SelectAssets ==
    \E selection \in SUBSET managerAssets :
        /\ selection # selectedAssets
        /\ CommitAssets([Manager EXCEPT !.selectedAssets = selection], "SelectAssets")
        /\ UNCHANGED <<browserVars, savedLayout, sortVars, touchVars, scanVars, filterVars, createVars>>

\* The Delete command (bool OnDelete()), and what the user answers.
DeleteSelected ==
    \E answer \in UserAnswers :
        /\ CommitAssets(OnDeleteSelected(Manager, answer), "OnDelete")
        /\ UNCHANGED <<browserVars, savedLayout, sortVars, touchVars, scanVars, filterVars, createVars>>

\* Qt or the browser (OnRenameAsset, OnRenameFolder, EditNewAsset) asks a view
\* to edit an index.
EditRequested ==
    \E req \in [view : Views, index : Indexes(Manager), trigger : Triggers,
                hasEvent : BOOLEAN] :
      \E answer \in UserAnswers :
        /\ CommitAssets(ViewEdit(Manager, req, answer), "edit")
        /\ UNCHANGED <<browserVars, savedLayout, sortVars, touchVars, scanVars, filterVars, createVars>>

\* The name editor of a view is closed (the edit is finished or aborted).
EditorClosed ==
    \E view \in Views :
        /\ editing[view] # NoIndex
        /\ CommitAssets([Manager EXCEPT !.editing[view] = NoIndex], "closeEditor")
        /\ UNCHANGED <<browserVars, savedLayout, sortVars, touchVars, scanVars, filterVars, createVars>>

\* The Import action of the menus, and the files the user picks.
Import ==
    \E chosen \in SUBSET Extensions :
        /\ Len(importTasks) < MaxImports
        /\ CommitAssets(OnImport(Manager, selectedFolders, chosen), "OnImport")
        /\ UNCHANGED <<browserVars, savedLayout, sortVars, touchVars, scanVars, filterVars, createVars>>

\* A thread of the pool has run an import task.
ImportTaskRuns ==
    \E i \in DOMAIN importTasks :
      \E assets \in SUBSET AssetIds :
        /\ importTasks[i].state = "queued"
        /\ CommitAssets(ImportReturns(Manager, i, assets), "Import")
        /\ UNCHANGED <<browserVars, savedLayout, sortVars, touchVars, scanVars, filterVars, createVars>>

\* The main thread runs the finalizer of a task that has returned.
ImportFinalized ==
    \E i \in DOMAIN importTasks :
        /\ importTasks[i].state = "returned"
        /\ CommitAssets(ImportFinalize(Manager, i), "MergeAssets")
        /\ UNCHANGED <<browserVars, savedLayout, sortVars, touchVars, scanVars, filterVars, createVars>>

\* The browser over an asset manager as a project may leave it: any of the
\* assets may have reverse dependencies.
InitDelete ==
    /\ InitBrowser
    /\ rows = <<>>
    /\ sortOrder = "Ascending"
    /\ \E dependedOn \in SUBSET AssetIds : InitAssetsWith(dependedOn, {"fbx"})
    /\ InitTouch
    /\ InitScan
    /\ InitFilters
    /\ InitCreate

\* One asset has reverse dependencies, the other has none.
InitEdit ==
    /\ InitBrowser
    /\ rows = <<>>
    /\ sortOrder = "Ascending"
    /\ InitAssetsWith({"x"}, {"fbx"})
    /\ InitTouch
    /\ InitScan
    /\ InitFilters
    /\ InitCreate

\* The editor with or without the plugin that registers the importer.
InitImport ==
    /\ InitBrowser
    /\ rows = <<>>
    /\ sortOrder = "Ascending"
    /\ \E registered \in SUBSET {"fbx"} : InitAssetsWith({}, registered)
    /\ InitTouch
    /\ InitScan
    /\ InitFilters
    /\ InitCreate

NextDelete == SelectAssets \/ DeleteSelected
NextEdit == EditRequested \/ EditorClosed
NextImport == Import \/ ImportTaskRuns \/ ImportFinalized

SpecDelete == InitDelete /\ [][NextDelete]_vars
SpecEdit == InitEdit /\ [][NextEdit]_vars
\* The pool runs every queued task and the event loop every finalizer.
SpecImport ==
    InitImport /\ [][NextImport]_vars
        /\ WF_vars(ImportTaskRuns) /\ WF_vars(ImportFinalized)

\* ------------------------------------------ actions on the thumbnails view

\* QThumbnailsView::SetModel hands the view its model (InitThumbnailsView).
SetModel ==
    \E n \in ModelSizes :
        /\ viewAlive
        /\ ~hasModel
        /\ CommitTouch([TouchView EXCEPT !.hasModel = TRUE, !.rowCount = n],
                       "SetModel")
        /\ UNCHANGED <<browserVars, savedLayout, sortVars, assetVars, scanVars, filterVars, createVars>>

\* scrollContentsBy: the view is scrolled.
ScrollContentsBy ==
    /\ viewAlive
    /\ Len(sweeps) < MaxSweeps
    /\ CommitTouch(TouchVisibleAssets(TouchView), "TouchVisibleAssets")
    /\ UNCHANGED <<browserVars, savedLayout, sortVars, assetVars, scanVars, filterVars, createVars>>

\* The event loop fires the zero-delay timer of a pending continuation.
TimerFired ==
    \E s \in DOMAIN sweeps :
        /\ sweeps[s].pending >= 0
        /\ CommitTouch(BatchContinuation(TouchView, s), "TouchVisibleAssetsBatched")
        /\ UNCHANGED <<browserVars, savedLayout, sortVars, assetVars, scanVars, filterVars, createVars>>

\* A row is inserted into the model or removed from it, or the model is reset
\* and left empty, while the view shows it.
RowsChanged ==
    \E n \in {0, rowCount - 1, rowCount + 1} \cap (0 .. MaxModelRows) :
        /\ viewAlive
        /\ hasModel
        /\ n # rowCount
        /\ resizes < MaxResizes
        /\ CommitTouch([SetRowCount(TouchView, n) EXCEPT !.resizes = @ + 1],
                       "rowsChanged")
        /\ UNCHANGED <<browserVars, savedLayout, sortVars, assetVars, scanVars, filterVars, createVars>>

\* The internal view of the thumbnails view right after its construction.
InitThumbnailsView ==
    /\ InitBrowser
    /\ rows = <<>>
    /\ sortOrder = "Ascending"
    /\ InitAssets
    /\ hasModel = FALSE
    /\ rowCount = 0
    /\ resizes = 0
    /\ sweeps = <<>>
    /\ viewAlive = TRUE
    /\ InitScan
    /\ InitFilters
    /\ InitCreate

NextTouch == SetModel \/ ScrollContentsBy \/ TimerFired \/ RowsChanged

\* The event loop fires every timer that is due.
SpecTouch == InitThumbnailsView /\ [][NextTouch]_vars /\ WF_vars(TimerFired)

\* The thumbnails view is destroyed (with the browser that owns it).
ViewDestroyed ==
    /\ viewAlive
    /\ CommitTouch(DestroyView(TouchView), "~CThumbnailsInternalView")
    /\ UNCHANGED <<browserVars, savedLayout, sortVars, assetVars, scanVars, filterVars, createVars>>

NextTouchEnd == NextTouch \/ ViewDestroyed

\* ----------------------------------------- actions on the loading layout

\* The asset manager starts to scan.
ScanStarts ==
    /\ ~isScanning
    /\ scans < MaxScans
    /\ CommitScan([Scan EXCEPT !.isScanning = TRUE], "StartScanning")
    /\ UNCHANGED <<browserVars, savedLayout, sortVars, assetVars, touchVars, filterVars, createVars>>

\* The asset manager raises signalScanningCompleted.
ScanCompletes ==
    /\ isScanning
    /\ CommitScan(ScanningCompleted(Scan), "signalScanningCompleted")
    /\ UNCHANGED <<browserVars, savedLayout, sortVars, assetVars, touchVars, filterVars, createVars>>

\* A browser is constructed.
BrowserConstructed ==
    \E b \in BrowserIds :
        /\ browsers[b].life = "none"
        /\ CommitScan(ConstructBrowser(Scan, b), "CAssetBrowser")
        /\ UNCHANGED <<browserVars, savedLayout, sortVars, assetVars, touchVars, filterVars, createVars>>

\* A browser is destroyed.
BrowserDestroyed ==
    \E b \in BrowserIds :
        /\ browsers[b].life = "alive"
        /\ CommitScan(Destructor(Scan, b), "~CAssetBrowser")
        /\ UNCHANGED <<browserVars, savedLayout, sortVars, assetVars, touchVars, filterVars, createVars>>

\* ------------------------------------------- actions on the proxy model

CommitProxy(p, op) ==
    /\ m_filters' = p.m_filters
    /\ m_pDependencyFilter' = p.m_pDependencyFilter
    /\ acceptedRows' = p.acceptedRows
    /\ usageShown' = p.usageShown
    /\ lastOp' = [op |-> op, trace |-> NoTrace, fromSaved |-> FALSE,
                  changed |-> FALSE]
    /\ UNCHANGED <<browserVars, savedLayout, sortVars, assetVars, touchVars,
                   scanVars, createVars>>

\* The filter panel adds a filter and invalidates the proxy model.
FilterAdded ==
    \E f \in Filters :
        /\ Len(m_filters) < MaxFilters
        /\ CommitProxy(InvalidateFilter([Proxy EXCEPT !.m_filters = Append(@, f)]),
                       "InvalidateFilter")

\* The filter panel enables or disables a filter and invalidates the proxy
\* model.
FilterToggled ==
    \E i \in DOMAIN m_filters :
        CommitProxy(InvalidateFilter([Proxy EXCEPT !.m_filters[i].enabled = ~@]),
                    "InvalidateFilter")

\* A view asks for the usage count of an asset row.
UsageCountShown ==
    \E usageInfo \in UsageInfos :
        CommitProxy(data(Proxy, usageInfo), "data")

NextFilter == FilterAdded \/ FilterToggled \/ UsageCountShown

\* The proxy model of a browser from its construction on.
SpecFilter == Init /\ [][NextFilter]_vars

\* A context menu is requested for a selection of assets.
ContextMenuRequested ==
    \E assets \in AssetLists :
        /\ CommitAssets(BuildContextMenuForAssets(Manager, assets),
                        "BuildContextMenuForAssets")
        /\ UNCHANGED <<browserVars, savedLayout, sortVars, touchVars, scanVars, filterVars, createVars>>

\* The context menus of a browser.
SpecMenu == Init /\ [][ContextMenuRequested]_vars

\* ---------------------------------------------- actions creating an asset

\* The handler `op` has returned leaving the browser, the asset side and the
\* new-asset model as c.
CommitCreation(c, op) ==
    /\ Commit(c.b, op, FALSE, FALSE)
    /\ managerAssets' = c.a.managerAssets
    /\ selectedAssets' = c.a.selectedAssets
    /\ reverseDependencies' = c.a.reverseDependencies
    /\ importers' = c.a.importers
    /\ editing' = c.a.editing
    /\ importTasks' = c.a.importTasks
    /\ calls' = c.a.calls
    /\ newAssetModel' = c.n
    /\ creates' = c.creates
    /\ query' = c.query
    /\ UNCHANGED <<savedLayout, sortVars, touchVars, scanVars, filterVars>>

\* An action of the create-asset menu is triggered.
CreateAssetTriggered ==
    \E focus \in Focus, filteredOut, succeeds \in BOOLEAN :
        /\ ~newAssetModel.isEditing
        /\ creates.begun < MaxCreates
        /\ CommitCreation(BeginCreateAsset(Creation, focus, filteredOut, succeeds),
                          "BeginCreateAsset")

\* An asset type asks the browser for a new asset (CContextMenuContext).
QueryNewAssetCalled ==
    \E focus \in Focus, filteredOut, succeeds \in BOOLEAN :
        /\ ~newAssetModel.isEditing
        /\ query.state # "waiting"
        /\ creates.begun < MaxCreates
        /\ CommitCreation(QueryNewAsset(Creation, focus, filteredOut, succeeds),
                          "QueryNewAsset")

\* The user finishes or aborts the name editor of the new row: the delegate
\* raises signalEditingFinished or signalEditingAborted, and onEnd runs.
NameEditorClosed ==
    \E view \in Views, succeeds \in BOOLEAN :
        /\ editing[view] = NewAssetRow
        /\ newAssetModel.isEditing
        /\ CommitCreation(
               EndCreateAsset([Creation EXCEPT !.a.editing[view] = NoIndex],
                              succeeds),
               "EndCreateAsset")

\* while (IsEditing()) processEvents(); finds the model not editing.
QueryNewAssetReturns ==
    /\ query.state = "waiting"
    /\ ~newAssetModel.isEditing
    /\ CommitCreation([Creation EXCEPT !.query = [state |-> "returned",
                                                  result |-> newAssetModel.asset]],
                      "QueryNewAsset returns")

NextCreate ==
    \/ FolderSelectionChanged
    \/ CreateAssetTriggered
    \/ QueryNewAssetCalled
    \/ NameEditorClosed
    \/ QueryNewAssetReturns

\* Creating assets; the user ends every name editor, and the wait loop of
\* QueryNewAsset keeps running.
SpecCreate ==
    /\ Init
    /\ [][NextCreate]_vars
    /\ WF_vars(NameEditorClosed)
    /\ WF_vars(QueryNewAssetReturns)

\* No browser exists yet; the manager may be scanning.
InitLoading ==
    /\ InitBrowser
    /\ rows = <<>>
    /\ sortOrder = "Ascending"
    /\ InitAssets
    /\ InitTouch
    /\ isScanning \in BOOLEAN
    /\ connections = {}
    /\ browsers = [b \in BrowserIds |-> NoBrowser]
    /\ scans = 0
    /\ InitFilters
    /\ InitCreate

NextLoading ==
    ScanStarts \/ ScanCompletes \/ BrowserConstructed \/ BrowserDestroyed

SpecLoading == InitLoading /\ [][NextLoading]_vars

\* The thumbnails view from its construction to after its destruction.
SpecTouchEnd == InitThumbnailsView /\ [][NextTouchEnd]_vars

\* ------------------------------------------------------------ the program

Next ==
    \/ NextNav
    \/ NextModels
    \/ ViewMenuMode
    \/ ViewModeButtonClicked
    \/ ToggleFoldersView
    \/ SaveLayout
    \/ RestoreLayout
    \/ LoadLayout(NavLayouts \cup ModelLayouts \cup ViewLayouts)
    \/ SortStep
    \/ NextDelete
    \/ NextEdit
    \/ NextImport
    \/ ViewDestroyed
    \/ NextTouch
    \/ NextLoading
    \/ NextFilter
    \/ NextCreate
    \/ ContextMenuRequested

Spec == Init /\ [][Next]_vars

\* ================================================================== claims

Searching == (searchText # "") \/ hasActiveFilters

\* C1: the navigation index stays inside the history, -1 <= m_navigationIndex
\* <= count - 1, after any folder selections, Back and Forward presses (while
\* enabled) and SetLayout calls; Back and Forward never read the history out
\* of range.
C1_IndexInRange ==
    /\ -1 <= m_navigationIndex
    /\ m_navigationIndex <= Len(m_navigationHistory) - 1
    /\ ~lastOp.trace.outOfRange

\* Forward was pressed and arrived at the last entry of a history of several.
C1_Witness ==
    /\ lastOp.op = "NavForward"
    /\ Len(m_navigationHistory) >= 2
    /\ m_navigationIndex = Len(m_navigationHistory) - 1

\* C2: a folder selection made while the index is not at the last entry drops
\* the entries after the index, appends the selection and steps the index to
\* it; afterwards the index is the last position, the entry there is the new
\* selection and Forward is disabled.
C2_SelectionTruncatesForward ==
    [][(lastOp'.op = "FolderSelection"
          /\ m_navigationIndex < Len(m_navigationHistory) - 1)
       => /\ m_navigationHistory' =
                 Append(SubSeq(m_navigationHistory, 1, m_navigationIndex + 1),
                        selectedFolders')
          /\ m_navigationIndex' = m_navigationIndex + 1
          /\ m_navigationIndex' = Len(m_navigationHistory') - 1
          /\ m_navigationHistory'[Len(m_navigationHistory')] = selectedFolders'
          /\ ~forwardEnabled']_vars

\* A selection was made after going back, and forward entries were dropped.
C2_Witness ==
    /\ lastOp.op = "FolderSelection"
    /\ lastOp.trace.discarded > 0
    /\ m_navigationIndex = Len(m_navigationHistory) - 1

\* C3: Back and Forward leave the navigation history as it was, also when the
\* folders view reports the selection change they cause, and
\* m_dontPushNavHistory is false again once they return.
C3_BackForwardKeepHistory ==
    [][lastOp'.op \in {"NavBack", "NavForward"}
       => /\ m_navigationHistory' = m_navigationHistory
          /\ ~m_dontPushNavHistory']_vars

\* Back was pressed and the selection change it caused was handled.
C3_Witness ==
    /\ lastOp.op = "NavBack"
    /\ lastOp.trace.emitted
    /\ Len(m_navigationHistory) >= 2
    /\ ~m_dontPushNavHistory

C5_IdleModelFollowsRecursiveView ==
    (~Searching /\ ~filteredPending)
        => /\ isRecursive = m_recursiveView
           /\ showFolders = ~m_recursiveView

\* A recursive search has ended and the model is back to the flat view.
C5_Witness ==
    /\ lastOp.op = "OnFiltered"
    /\ ~Searching
    /\ m_recursiveSearch
    /\ ~m_recursiveView
    /\ ~isRecursive
    /\ showFolders

\* C6: while a search text or a filter is active and m_recursiveSearch is set,
\* once UpdateModels has run for the latest change, the folder filter model is
\* recursive and hides folders, whatever m_recursiveView is.
C6_RecursiveSearchIsRecursive ==
    (Searching /\ m_recursiveSearch /\ ~filteredPending)
        => (isRecursive /\ ~showFolders)

\* A search has started in the flat view and made the model recursive.
C6_Witness ==
    /\ lastOp.op = "OnFiltered"
    /\ Searching
    /\ m_recursiveSearch
    /\ ~m_recursiveView
    /\ isRecursive

\* C7: while a search text or a filter is active and m_recursiveSearch is not
\* set, the folder filter model is recursive exactly when m_recursiveView is.
C7_FlatSearchFollowsRecursiveView ==
    (Searching /\ ~m_recursiveSearch /\ ~filteredPending)
        => (isRecursive = m_recursiveView)

\* C8: lessThan on a folder row and an asset row is true exactly when the
\* left row is the folder, whatever their sort values; so once an ascending
\* sort is over every folder row stands before every asset row.
C8_FoldersBeforeAssets ==
    /\ \A i, j \in 1 .. Len(rows) :
           rows[i].type # rows[j].type
               => (lessThan(rows[i], rows[j]) <=> rows[i].type = eAssetModelRow_Folder)
    /\ (sortOrder = "Ascending" /\ Sorted)
           => \A i, j \in 1 .. Len(rows) :
                  (rows[i].type = eAssetModelRow_Asset
                     /\ rows[j].type = eAssetModelRow_Folder) => j < i

\* An ascending sort is over, and a folder stands before an asset of smaller
\* sort value.
C8_Witness ==
    /\ lastOp.op = "sort"
    /\ sortOrder = "Ascending"
    /\ Sorted
    /\ \E i, j \in 1 .. Len(rows) :
           /\ i < j
           /\ rows[i].type = eAssetModelRow_Folder
           /\ rows[j].type = eAssetModelRow_Asset
           /\ rows[j].value < rows[i].value

\* C9: SetLayout with the map GetLayout returned restores the view mode, the
\* recursive-view flag and the recursive-search flag of the time of GetLayout.
C9_LayoutRoundTrip ==
    (lastOp.op = "SetLayout" /\ lastOp.fromSaved)
        => /\ savedLayout.viewMode = {m_viewMode}
           /\ savedLayout.recursiveView = {m_recursiveView}
           /\ savedLayout.recursiveSearch = {m_recursiveSearch}

\* The saved map was restored after all three had been changed.
C9_Witness ==
    /\ lastOp.op = "SetLayout"
    /\ lastOp.fromSaved
    /\ lastOp.changed

\* C10: m_viewMode is one of the four view modes, and exactly the view-mode
\* button of that mode is checked.
C10_ViewModeValid ==
    /\ m_viewMode \in 0 .. Max - 1
    /\ \A i \in 0 .. Max - 1 : buttonChecked[i] = (i = m_viewMode)

\* The calls of the last handler to the collaborators named in fns, in order.
CallsOf(fns) == SelectSeq(calls, LAMBDA c : c.fn \in fns)
ConfirmationDialogs == CallsOf({"CAssetReverseDependenciesDialog", "SQuestion"})
\* The user agreed in the dialog of call c.
Agreed(c) ==
    \/ c.fn = "CAssetReverseDependenciesDialog" /\ c.ret = "true"
    \/ c.fn = "SQuestion" /\ c.ret = "Yes"
\* The dialog that has to ask about `assets`.
DialogFor(assets) ==
    IF assets \cap reverseDependencies # {}
    THEN "CAssetReverseDependenciesDialog" ELSE "SQuestion"

\* C11: every OnDelete(assets) call shows exactly one confirmation dialog, the
\* reverse-dependencies dialog when one of the assets has reverse dependencies
\* and the yes/no question otherwise; DeleteAssetsWithFiles(assets) is called
\* after it, and only when the user agreed; when the user declined, nothing is
\* deleted.
C11_DeleteOnlyAfterConfirmation ==
    lastOp.op = "OnDelete" =>
        LET entered == CallsOf({"OnDelete"})
            deletes == CallsOf({"DeleteAssetsWithFiles"})
        IN  /\ Len(ConfirmationDialogs) = Len(entered)
            /\ entered = <<>> => calls = <<>>
            /\ entered # <<>> =>
                 LET assets == entered[1].arg
                     dialog == ConfirmationDialogs[1]
                 IN  /\ Len(entered) = 1
                     /\ calls[1] = entered[1]
                     /\ calls[2] = dialog
                     /\ dialog.fn = DialogFor(assets)
                     /\ IF Agreed(dialog)
                        THEN /\ Len(calls) = 3
                             /\ calls[3] = [fn |-> "DeleteAssetsWithFiles",
                                            arg |-> assets, ret |-> ""]
                        ELSE /\ Len(calls) = 2
                             /\ deletes = <<>>
                             /\ assets \subseteq managerAssets
                             /\ selectedAssets = assets

\* The user declined to delete two assets of which one has reverse
\* dependencies, and both are still there.
C11_Witness ==
    /\ lastOp.op = "OnDelete"
    /\ Len(calls) = 2
    /\ calls[2].fn = "CAssetReverseDependenciesDialog"
    /\ calls[2].ret = "false"
    /\ Cardinality(calls[1].arg) = 2
    /\ calls[1].arg \subseteq managerAssets
    /\ ~(calls[1].arg \subseteq reverseDependencies)

\* The request the last edit() call was made with.
EditRequest == CHOOSE req \in calls[1].arg : TRUE
\* The row of the request is an asset row with an asset behind it.
ExistingAssetRow(req) == IsAsset(req.index) /\ ToAsset(req.index) # NullAsset

\* C12: in both views, edit() with one of the view's triggers on the row of an
\* existing asset shows exactly one confirmation dialog (the
\* reverse-dependencies dialog when the asset has reverse dependencies, the
\* yes/no question otherwise); when the user declines, the base edit is not
\* called, the event (when there is one) is accepted and edit returns true;
\* the name editor of an existing asset opens only after the user agreed;
\* folder rows and the new-asset row go to the base edit with no dialog.
C12_RenameNeedsConfirmation ==
    lastOp.op = "edit" =>
        LET req == EditRequest
            base == CallsOf({"BaseEdit"})
            accepts == CallsOf({"QEvent::accept"})
            returned == calls[Len(calls)]
        IN  /\ returned.fn = "return"
            /\ (ExistingAssetRow(req) /\ req.trigger \cap ViewEditTriggers # {}) =>
                 /\ Len(ConfirmationDialogs) = 1
                 /\ ConfirmationDialogs[1].fn = DialogFor({ToAsset(req.index)})
                 /\ IF Agreed(ConfirmationDialogs[1])
                    THEN Len(base) = 1
                    ELSE /\ base = <<>>
                         /\ req.hasEvent => Len(accepts) = 1
                         /\ returned.ret = "true"
            /\ (ExistingAssetRow(req) /\ base # <<>> /\ base[1].ret = "true") =>
                 (ConfirmationDialogs # <<>> /\ Agreed(ConfirmationDialogs[1]))
            /\ ~ExistingAssetRow(req) =>
                 (ConfirmationDialogs = <<>> /\ Len(base) = 1)

\* The user declined to rename an asset with reverse dependencies in the
\* thumbnails view: the event was accepted and no editor is open.
C12_Witness ==
    /\ lastOp.op = "edit"
    /\ EditRequest.view = "thumbnails"
    /\ EditRequest.hasEvent
    /\ ExistingAssetRow(EditRequest)
    /\ ToAsset(EditRequest.index) \in reverseDependencies
    /\ Len(ConfirmationDialogs) = 1
    /\ ~Agreed(ConfirmationDialogs[1])
    /\ calls[Len(calls)].ret = "true"
    /\ editing["thumbnails"] = NoIndex

\* C13: OnImport starts an import task exactly when an importer is
\* registered, the user chose a file and CanImportAny accepts the chosen
\* files; OnImport itself merges no assets; with no importer a warning box is
\* shown and the file dialog is not opened, with no file chosen nothing more
\* happens, and with no importable file a "Cannot import" warning is reported.
C13_ImportGuards ==
    [][lastOp'.op = "OnImport" =>
         LET started == CallsOf({"AsyncFinalize"})'
             opened == CallsOf({"RunImportMultipleFiles"})'
             boxes == CallsOf({"SWarning"})'
             warnings == CallsOf({"CryWarning"})'
         IN  /\ Len(importTasks') = Len(importTasks) + Len(started)
             /\ managerAssets' = managerAssets
             /\ \A i \in DOMAIN importTasks : importTasks'[i] = importTasks[i]
             /\ IF importers = {}
                THEN /\ calls' = boxes
                     /\ Len(boxes) = 1
                     /\ opened = <<>>
                     /\ started = <<>>
                ELSE /\ Len(opened) = 1
                     /\ boxes = <<>>
                     /\ LET chosen == opened[1].arg
                        IN  /\ chosen = {} => calls' = opened
                            /\ (chosen # {} /\ CanImportAny(Manager, chosen)) =>
                                 (Len(started) = 1 /\ warnings = <<>>
                                    /\ started[1].arg = chosen)
                            /\ (chosen # {} /\ ~CanImportAny(Manager, chosen)) =>
                                 /\ started = <<>>
                                 /\ Len(warnings) = 1
                                 /\ warnings[1].ret \in
                                        {"Cannot import files.", "Cannot import file"}]_vars

\* OnImport has reported that none of the chosen files can be imported.
C13_Witness ==
    /\ lastOp.op = "OnImport"
    /\ importers # {}
    /\ CallsOf({"CryWarning"}) # <<>>
    /\ CallsOf({"AsyncFinalize"}) = <<>>
    /\ importTasks # <<>>

\* The finalizer of a task has run only after Import returned, once, with
\* what Import returned.
MergedOnceAfterImport(task) ==
    /\ Len(task.merged) <= 1
    /\ task.state \in {"queued", "returned"} => task.merged = <<>>
    /\ task.state = "merged" => task.merged = <<task.returned>>

\* C14: the task OnImport starts is still to run when OnImport returns;
\* MergeAssets is called for it only after Import has returned, with the
\* assets Import returned, and once; no other handler changes or removes the
\* task; and the pool and the event loop running, it is called in the end.
C14_MergedExactlyOnce ==
    /\ [](\A i \in DOMAIN importTasks : MergedOnceAfterImport(importTasks[i]))
    /\ []((lastOp.op = "OnImport" /\ CallsOf({"AsyncFinalize"}) # <<>>)
             => importTasks[Len(importTasks)].state = "queued")
    /\ [][\A i \in DOMAIN importTasks :
             /\ i \in DOMAIN importTasks'
             /\ importTasks'[i] # importTasks[i]
                  => lastOp'.op \in {"Import", "MergeAssets"}]_vars
    /\ \A i \in 1 .. MaxImports :
           (Len(importTasks) >= i)
               ~> (Len(importTasks) >= i /\ importTasks[i].state = "merged")

\* The assets an import returned have been merged while a later import is
\* still running.
C14_Witness ==
    /\ lastOp.op = "MergeAssets"
    /\ Len(importTasks) = 2
    /\ importTasks[1].state = "merged"
    /\ importTasks[1].returned # {}
    /\ importTasks[1].merged = <<importTasks[1].returned>>
    /\ importTasks[2].state = "queued"

RECURSIVE RowsOfBatches(_, _)
\* The number of rows the first m batches of a sweep examined.
RowsOfBatches(batches, m) ==
    IF m = 0 THEN 0 ELSE RowsOfBatches(batches, m - 1) + batches[m]

\* What holds of a sweep on a model whose row count has stayed the same: the
\* rows below the pending continuation (all rows, when none is pending) have
\* been examined once each and no other row has, every batch took the rows
\* that follow those of the batches before it, and every batch examined a row.
SteadySweep(w) ==
    LET done == IF w.pending = -1 THEN w.rowsAtStart ELSE w.pending
    IN  /\ Len(w.seen) = done
        /\ \A r \in 0 .. done - 1 :
               Cardinality({k \in DOMAIN w.seen : w.seen[k] = r}) = 1
        /\ \A m \in 1 .. Len(w.batches) :
               /\ w.batches[m] >= 1
               /\ {w.seen[k] : k \in RowsOfBatches(w.batches, m - 1) + 1 ..
                                     RowsOfBatches(w.batches, m)}
                      = RowsOfBatches(w.batches, m - 1) ..
                            RowsOfBatches(w.batches, m) - 1
        /\ RowsOfBatches(w.batches, Len(w.batches)) = done
        /\ Len(w.batches) <= w.rowsAtStart

\* C15: a sweep on a model whose row count stays the same examines the rows
\* 0 .. rowCount - 1 once each, batch after batch in row order, one
\* continuation pending at a time, and ends; on an empty or missing model it
\* examines nothing and schedules nothing.
C15_SweepCoversEveryRowOnce ==
    /\ [](\A s \in DOMAIN sweeps :
             /\ sweeps[s].steady => SteadySweep(sweeps[s])
             /\ sweeps[s].rowsAtStart = 0 =>
                  /\ sweeps[s].seen = <<>>
                  /\ sweeps[s].batches = <<>>
                  /\ sweeps[s].pending = -1)
    /\ \A s \in 1 .. MaxSweeps :
           (Len(sweeps) >= s) ~> (Len(sweeps) >= s /\ sweeps[s].pending = -1)

\* A sweep over a model of at least three batches has ended, the row count
\* unchanged.
C15_Witness ==
    \E s \in DOMAIN sweeps :
        /\ sweeps[s].steady
        /\ sweeps[s].pending = -1
        /\ Len(sweeps[s].batches) >= 3
        /\ Len(sweeps[s].seen) = rowCount

\* C16: a Back press (the button is enabled) makes the folders view select the
\* history entry before the current one, and never clears the selection.
C16_BackSelectsEarlierEntry ==
    lastOp.op = "NavBack" =>
        /\ ~lastOp.trace.cleared
        /\ m_navigationIndex >= 0
        /\ selectedFolders = m_navigationHistory[m_navigationIndex + 1]

\* C17: when SetLayout returns the navigation history is empty, the index is
\* -1 and Back and Forward are disabled.
C17_SetLayoutClearsHistory ==
    lastOp.op = "SetLayout" =>
        /\ m_navigationHistory = <<>>
        /\ m_navigationIndex = -1
        /\ ~backEnabled
        /\ ~forwardEnabled

\* SetLayout changed the folder selection while it restored the folders view,
\* and dropped a history of several entries.
C17_Witness ==
    /\ lastOp.op = "SetLayout"
    /\ lastOp.trace.emitted
    /\ lastOp.trace.dropped >= 3
    /\ m_navigationHistory = <<>>

\* C18: while m_viewMode is one of the four view modes, Details shows only
\* the details view, Thumbnails only the thumbnails view, HSplit and VSplit
\* both with the main splitter Vertical exactly for VSplit; one of the views
\* is always visible; SetViewMode with the current mode changes nothing.
C18_ViewsFollowViewMode ==
    /\ [](/\ thumbnailVisible \/ detailsVisible
          /\ m_viewMode = Details => (detailsVisible /\ ~thumbnailVisible)
          /\ m_viewMode = Thumbnails => (thumbnailVisible /\ ~detailsVisible)
          /\ m_viewMode \in {HSplit, VSplit} =>
               /\ thumbnailVisible /\ detailsVisible
               /\ (splitterOrientation = "Vertical") = (m_viewMode = VSplit))
    /\ [][(lastOp'.op = "SetViewMode" /\ m_viewMode' = m_viewMode)
            => UNCHANGED browserVars]_vars

\* The browser has gone from a vertical split to a horizontal one.
C18_Witness ==
    /\ lastOp.op = "SetViewMode"
    /\ m_viewMode = HSplit
    /\ splitterOrientation = "Horizontal"
    /\ savedLayout.viewMode = {VSplit}

\* C19: over the rows of the model, lessThan(a, a) is false, lessThan(a, b)
\* and lessThan(b, a) are never both true, and of two asset rows with equal
\* sort values exactly one is less than the other, the one with the smaller
\* internal pointer.
C19_LessThanStrict ==
    \A i, j \in 1 .. Len(rows) :
        /\ ~lessThan(rows[i], rows[i])
        /\ ~(lessThan(rows[i], rows[j]) /\ lessThan(rows[j], rows[i]))
        /\ (/\ i # j
            /\ rows[i].type = eAssetModelRow_Asset
            /\ rows[j].type = eAssetModelRow_Asset
            /\ rows[i].value = rows[j].value)
               => /\ lessThan(rows[i], rows[j]) # lessThan(rows[j], rows[i])
                  /\ lessThan(rows[i], rows[j]) = (rows[i].ptr < rows[j].ptr)

\* A sort has put two assets of equal sort value in the order of their
\* internal pointers.
C19_Witness ==
    /\ lastOp.op = "sort"
    /\ sortOrder = "Ascending"
    /\ Sorted
    /\ \E i \in 1 .. Len(rows) - 1 :
           /\ rows[i].type = eAssetModelRow_Asset
           /\ rows[i + 1].type = eAssetModelRow_Asset
           /\ rows[i].value = rows[i + 1].value
           /\ rows[i].ptr < rows[i + 1].ptr

\* C20: no batch of a sweep examines more than batchSize rows.
C20_BatchAtMostBatchSize ==
    \A s \in DOMAIN sweeps :
        \A m \in DOMAIN sweeps[s].batches : sweeps[s].batches[m] <= batchSize

\* C21: a batch continuation that fires after the thumbnails view has been
\* destroyed examines no row, records no batch and schedules nothing; one
\* that fires when the model has no row at its start row any more examines
\* no row and schedules nothing.
C21_StaleContinuationHarmless ==
    [][\A s \in DOMAIN sweeps :
          (/\ lastOp'.op = "TouchVisibleAssetsBatched"
           /\ sweeps'[s] # sweeps[s]
           /\ (~viewAlive \/ ~hasModel \/ rowCount <= sweeps[s].pending))
              => /\ sweeps'[s].seen = sweeps[s].seen
                 /\ sweeps'[s].pending = -1
                 /\ ~viewAlive => sweeps'[s].batches = sweeps[s].batches]_vars

\* One sweep found the model shrunk below its start row, and the continuation
\* of another has fired after the view was destroyed and left it short of
\* the rows it started with.
C21_Witness ==
    /\ ~viewAlive
    /\ lastOp.op = "TouchVisibleAssetsBatched"
    /\ \E s1, s2 \in DOMAIN sweeps :
           /\ sweeps[s1].batches # <<>>
           /\ sweeps[s1].batches[Len(sweeps[s1].batches)] = 0
           /\ sweeps[s2].pending = -1
           /\ sweeps[s2].batches[Len(sweeps[s2].batches)] > 0
           /\ Len(sweeps[s2].seen) < sweeps[s2].rowsAtStart
           /\ sweeps[s2].rowsAtStart <= rowCount + 1

\* C22: a browser constructed while the manager scans shows the loading
\* layout and is connected until signalScanningCompleted is raised; its
\* handler then shows the normal layout and disconnects, runs at most once
\* and only while the browser is alive; a browser constructed while the
\* manager does not scan shows the normal layout and is never connected.
C22_LoadingLayoutUntilScanned ==
    /\ [](\A b \in BrowserIds :
            /\ browsers[b].runs <= 1
            /\ browsers[b].life = "alive" =>
                   (browsers[b].layout = "loading") = (b \in connections)
            /\ browsers[b].life # "alive" => b \notin connections
            /\ ~browsers[b].scanningAtConstruction =>
                   /\ browsers[b].runs = 0
                   /\ browsers[b].layout # "loading")
    /\ [][\A b \in BrowserIds :
            /\ (browsers[b].life = "none" /\ browsers'[b].life = "alive") =>
                   /\ browsers'[b].scanningAtConstruction = isScanning
                   /\ browsers'[b].layout =
                          IF isScanning THEN "loading" ELSE "normal"
            /\ browsers'[b].runs # browsers[b].runs =>
                   /\ browsers[b].life = "alive"
                   /\ lastOp'.op = "signalScanningCompleted"
            /\ (browsers[b].life = "alive" /\ browsers'[b].life = "alive"
                    /\ browsers'[b].layout # browsers[b].layout) =>
                   /\ lastOp'.op = "signalScanningCompleted"
                   /\ browsers'[b].layout = "normal"
            /\ (lastOp'.op = "signalScanningCompleted"
                    /\ browsers[b].layout = "loading"
                    /\ browsers[b].life = "alive") =>
                   /\ browsers'[b].layout = "normal"
                   /\ browsers'[b].runs = 1]_vars

\* Two scans have completed since a browser was constructed during the first
\* one: its handler has run once; another browser was destroyed while it
\* showed the loading layout, and a scan has completed since.
C22_Witness ==
    /\ lastOp.op = "signalScanningCompleted"
    /\ scans = 2
    /\ \E b, c \in BrowserIds :
           /\ browsers[b].life = "alive"
           /\ browsers[b].scanningAtConstruction
           /\ browsers[b].runs = 1
           /\ browsers[b].layout = "normal"
           /\ browsers[c].life = "destroyed"
           /\ browsers[c].scanningAtConstruction
           /\ browsers[c].runs = 0

\* C23: a source row with an invalid name index is rejected; a folder row is
\* accepted exactly when the deep filter accepts it and every enabled filter
\* on the name attribute matches its display name, whatever the enabled
\* filters on other attributes are; an asset row is accepted exactly when
\* the base attribute filter accepts it.
C23_FoldersTestedForNameOnly ==
    \A row \in SourceRows :
        (row \in acceptedRows) =
            (/\ row.valid
             /\ row.type = eAssetModelRow_Folder =>
                    /\ DeepRowMatchesFilter(row)
                    /\ \A i \in DOMAIN m_filters :
                           (/\ m_filters[i].enabled
                            /\ m_filters[i].attribute = s_nameAttribute)
                               => Match(m_filters[i], row.name)
             /\ row.type = eAssetModelRow_Asset =>
                    AttributeRowMatchesFilter(m_filters, row))

\* Under an enabled name filter and an enabled dependencies filter a folder
\* that uses nothing is accepted for its name, the asset of the same name
\* and usage is rejected, and a folder of another name is rejected.
C23_Witness ==
    /\ lastOp.op = "InvalidateFilter"
    /\ \E i, j \in DOMAIN m_filters :
           /\ m_filters[i].enabled
           /\ m_filters[i].attribute = s_nameAttribute
           /\ m_filters[j].enabled
           /\ m_filters[j].attribute = s_dependenciesAttribute
    /\ \E row \in acceptedRows :
           /\ row.type = eAssetModelRow_Folder
           /\ ~row.uses
           /\ [row EXCEPT !.type = eAssetModelRow_Asset] \notin acceptedRows
           /\ \E other \in {"a", "b"} :
                  [row EXCEPT !.name = other] \notin acceptedRows

EnabledDependencyFilters ==
    {i \in DOMAIN m_filters :
        m_filters[i].enabled /\ m_filters[i].attribute = s_dependenciesAttribute}

\* C27: m_pDependencyFilter is the enabled dependencies filter when exactly
\* one is enabled and null otherwise; the usage count column shows a count
\* only when exactly one dependencies filter is enabled, the asset uses the
\* path and the count is not 0, and "n/a" in every other case.
C27_OneDependencyFilterGivesCounts ==
    /\ m_pDependencyFilter =
           IF Cardinality(EnabledDependencyFilters) = 1
           THEN CHOOSE i \in EnabledDependencyFilters : TRUE
           ELSE 0
    /\ lastOp.op = "data" =>
           IF /\ Cardinality(EnabledDependencyFilters) = 1
              /\ usageShown.usageInfo.first
              /\ usageShown.usageInfo.second # 0
           THEN usageShown.value = IntVariant(usageShown.usageInfo.second)
           ELSE usageShown.value = NotAvailable

\* With two dependencies filters of which one is disabled, and a name filter
\* before them, the usage count of an asset that uses the path is shown.
C27_Witness ==
    /\ lastOp.op = "data"
    /\ Len(m_filters) = 3
    /\ m_filters[1].attribute = s_nameAttribute
    /\ ~m_filters[2].enabled
    /\ m_filters[2].attribute = s_dependenciesAttribute
    /\ m_pDependencyFilter = 3
    /\ usageShown.value = IntVariant(2)

\* C28: the context menu built for a selection of assets offers Delete
\* exactly when no selected asset is read-only and the first file of every
\* selected asset exists on disk.
C28_DeleteOfferedForDeletableAssets ==
    lastOp.op = "BuildContextMenuForAssets" =>
        LET assets == calls[1].arg
        IN  (\E k \in DOMAIN calls :
                 calls[k].fn = "CreateAction" /\ calls[k].arg = {"Delete"})
            = (\A i \in DOMAIN assets : ~assets[i].readOnly /\ assets[i].onDisk)

\* C29: the folder filter model shows folders exactly when it is not
\* recursive.
C29_FoldersShownIffNotRecursive == showFolders = ~isRecursive

\* A layout with the recursive view on has been loaded into a browser that
\* is not searching: the model is recursive and hides the folders.
C29_Witness ==
    /\ lastOp.op = "SetLayout"
    /\ ~Searching
    /\ m_recursiveView
    /\ isRecursive
    /\ ~showFolders

====
